---- MODULE Spec2Model ----
(***************************************************************************)
(* A model of the two batch utilities of the PriceChange repository:       *)
(*   src/excel_processor.py   the rule-driven search-and-update variant    *)
(*   src/unnamed/part_000     the find/replace variant                     *)
(* variant = "rules" is the first, variant = "replace" the second.         *)
(*                                                                         *)
(* SpecFile follows main's file loop and process_excel_with_xlwings (the   *)
(* acquisition and release of the Excel application and the workbook, the  *)
(* sheet loop, the save decision, the tally).                              *)
(* SpecParse applies parse_column_range to column specifications.          *)
(* SpecLetters applies column_letter_to_index and column_index_to_letter.  *)
(* SpecScan follows one engine over one sheet, row by row, recording the   *)
(* rows and the columns whose cells it reads and assigns.                  *)
(***************************************************************************)
EXTENDS Integers, Sequences, FiniteSets, TLC

\* ------------------------------------------------------------------ bounds
MaxFiles == 2
MaxSheets == 2
MaxGroups == 2
MaxVisits == 1
MaxSubs == 2
MaxParts == 2
MaxSpecLen == 4
MaxLetters == 2
MaxExtraRows == 2
MaxPairs == 2
MaxCellLen == 2
MaxRules == 2
MaxConfigs == 2
MaxTotal == 2
MaxFailures == 1

\* ------------------------------------------------------- program constants
\* general_settings.max_rows_to_process defaults to 300.
DefaultMaxRows == 300
\* The find/replace variant processes the first 300 rows of a sheet.
ReplaceRowCap == 300
\* Without a column restriction the find/replace variant checks A:DD.
DefaultColumns == 108

Variants == {"rules", "replace"}

Min(a, b) == IF a <= b THEN a ELSE b

\* A row limit that keeps every used row.
RowLimit_NoCap(rows, max_rows) == rows

\* rows_to_process = min(rows, max_rows_to_process)
RowLimit(rows, max_rows) == Min(rows, max_rows)

VARIABLES
    variant,            \* which of the two scripts runs
    pc,                 \* position in main / process_excel_with_xlwings / engine
    total_files,        \* len(excel_files)
    file_idx,           \* files whose iteration of main's loop has completed
    attempted,          \* the files handed to process_excel_with_xlwings, in order
    successful_files,
    failed_files,
    app,                \* "none" | "started"
    wb,                 \* "none" | "open"
    app_quit_called,    \* app.quit() was called for this file
    wb_close_called,    \* wb.close() was called for this file
    num_sheets,         \* len(wb.sheets)
    sheet_idx,          \* sheets of the current workbook already visited
    modifications_made,
    total_updates,      \* total_updates / total_replacements of the current file
    save_called,        \* wb.save() was invoked for the current file
    cells_written,      \* cell assignments that succeeded in the current workbook
    success,            \* first component of process_excel_with_xlwings' result
    groups,             \* rule engine: per column-pair group, do its letters convert
    group_idx,
    rows_to_process,
    row_idx,
    sheet_updates,      \* the engine's running total for the current sheet
    column_spec,        \* parse_column_range's argument, a sequence of characters
    spec_parts,         \* the parts column_spec was written from (<<>>: free text)
    parse_pc,           \* "input" | "parsed"
    parse_result,       \* what parse_column_range returned or raised
    letter_seq,         \* a column written in letters
    letter_index,       \* column_letter_to_index(letter_seq), once computed
    letter_back,        \* column_index_to_letter(letter_index), once computed
    letter_pc,          \* "letters" | "index" | "back"
    scan_pc,            \* position in the engine scanning one sheet
    used_range,         \* None, or the shape <<rows, cols>> of sheet.used_range
    max_rows_to_process,
    target_columns,     \* the sheet's 'columns' setting, a string or None
    column_indices,     \* what parse_column_range made of target_columns
    cols,               \* the engine's local cols
    matching,           \* which rows hold a cell the rules or patterns match
    start_row,          \* process_sheet_in_chunks' loop variable
    end_row,
    rows_visited,       \* iterations of a row loop so far
    max_row_read,       \* highest row index a cell was read in, -1 if none
    max_row_written,    \* highest row index a cell was assigned in, -1 if none
    columns_checked,    \* the column indices read in the row visited last
    replacement_pairs,  \* the (find_text, replace_text) pairs, in order
    sheet_cells,        \* the values of the cells process_chunk visits, in order
    writable,           \* per cell: does an assignment to cell.value succeed
    cell_pos,           \* cells already dealt with
    cell_pc,            \* "next_cell" | "patterns" | "update" | "done"
    original_value,
    cell_value,
    modified,
    pattern_idx,        \* patterns already applied to the current cell
    chunk_replacements, \* find_text -> count, as process_chunk keeps it
    subs_log,           \* per cell, the num_subs each pattern returned
    writes_log,         \* per cell, the values assigned to it, in order
    rule_list,          \* the rules main built for the sheet, in order
    grid,               \* the used range: per row, the values of columns A, B, C
    first_row,          \* the sheet row the used range starts at
    locked_rows,        \* rows (from 0) whose cells refuse an assignment
    rules_pc,           \* "group" | "pairs" | "rows" | "heights" | "done"
    grouped_rules,      \* the column-pair groups, in order of first appearance
    pair_idx,           \* groups whose pass is over
    lookup,             \* normalized search value -> <<target_value, name>>
    update_details,     \* rule name -> count
    updates_made,       \* the engine's total_updates for the sheet
    all_affected_rows,
    pass_row,           \* row_idx of the current pass
    heights_set,        \* the sheet rows whose row_height was set to 16
    search_reads,       \* the search cells read: <<column pair, row>>, in order
    cell_log,           \* the assignments made: <<row, column, value, name>>
    sheet_name,         \* sheet.name of the workbook sheet at hand
    configured,         \* sheet_configurations / sheet_rules: <<name, config>>
                        \* in the order of the dict
    gate_pc,            \* "gate" | "processed" | "skipped"
    gate_columns,       \* the target_columns the engine is called with
    chunk_pairs,        \* process_sheet_in_chunks' replacement_pairs
    sheet_rows,         \* process_sheet_in_chunks' rows
    chunk_size,
    chunk_start,        \* start_row of the chunk loop
    chunks_pc,          \* "setup" | "chunks" | "heights" | "returned" | "raised"
    chunks_processed,
    chunks_with_changes,
    total_replacements,
    replacement_details,    \* find_text -> count
    chunk_failures,     \* calls of process_chunk that raised
    chunk_log,          \* the chunks handed to process_chunk: <<start, end>>
    kept_counts,        \* find_text -> what the calls that returned counted
    counted_after_failure,  \* a call made after one that raised has counted
    units_skipped,      \* the kinds of unit an except clause passed over
    run_no,             \* which call of process_sheet_with_rules on the sheet
    grid_after_first,   \* the used range as the first call left it
    first_run_updates   \* the total the first call returned

mainVars == <<variant, total_files, file_idx, attempted, successful_files,
              failed_files>>
handleVars == <<app, wb, app_quit_called, wb_close_called>>
bookVars == <<num_sheets, sheet_idx, modifications_made, total_updates,
              save_called, cells_written, success>>
engVars == <<groups, group_idx, rows_to_process, row_idx, sheet_updates>>
\* what an engine step leaves alone, cells_written apart
fileRest == <<mainVars, handleVars, num_sheets, sheet_idx, modifications_made,
              total_updates, save_called, success>>
parseVars == <<column_spec, spec_parts, parse_pc, parse_result>>
letterVars == <<letter_seq, letter_index, letter_back, letter_pc>>
sheetVars == <<used_range, max_rows_to_process, target_columns, matching>>
scanVars == <<scan_pc, sheetVars, column_indices, cols, start_row, end_row,
              rows_visited, max_row_read, max_row_written, columns_checked>>
cellVars == <<replacement_pairs, sheet_cells, writable, cell_pos, cell_pc,
              original_value, cell_value, modified, pattern_idx,
              chunk_replacements, subs_log, writes_log>>
ruleVars == <<rule_list, grid, first_row, locked_rows, rules_pc,
              grouped_rules, pair_idx, lookup, update_details, updates_made,
              all_affected_rows, pass_row, heights_set, search_reads,
              cell_log>>
gateVars == <<sheet_name, configured, gate_pc, gate_columns>>
chunkVars == <<chunk_pairs, sheet_rows, chunk_size, chunk_start, chunks_pc,
               chunks_processed, chunks_with_changes, total_replacements,
               replacement_details, chunk_failures, chunk_log, kept_counts,
               counted_after_failure, units_skipped>>
twiceVars == <<run_no, grid_after_first, first_run_updates>>
fileAll == <<pc, mainVars, handleVars, bookVars, engVars>>
\* what the actions of one specification leave alone of the others
outsideFile == <<parseVars, letterVars, scanVars, cellVars, ruleVars,
                 gateVars, chunkVars, twiceVars>>
outsideParse == <<fileAll, letterVars, scanVars, cellVars, ruleVars,
                  gateVars, chunkVars, twiceVars>>
outsideLetters == <<fileAll, parseVars, scanVars, cellVars, ruleVars,
                    gateVars, chunkVars, twiceVars>>
outsideCell == <<fileAll, parseVars, letterVars, scanVars, ruleVars,
                 gateVars, chunkVars, twiceVars>>
outsideRules == <<fileAll, parseVars, letterVars, scanVars, cellVars,
                  gateVars, chunkVars, twiceVars>>
outsideGate == <<pc, total_files, file_idx, attempted, successful_files,
                 failed_files, handleVars, bookVars, engVars, parseVars,
                 letterVars, scanVars, cellVars, ruleVars, chunkVars,
                 twiceVars>>
outsideChunks == <<fileAll, parseVars, letterVars, scanVars, cellVars,
                   ruleVars, gateVars, twiceVars>>
outsideTwice == <<fileAll, parseVars, letterVars, scanVars, cellVars,
                  gateVars, chunkVars>>
outsideScan == <<pc, mainVars, handleVars, bookVars, sheet_updates, parseVars,
                 letterVars, cellVars, ruleVars, gateVars, chunkVars,
                 twiceVars>>
vars == <<fileAll, parseVars, letterVars, scanVars, cellVars, ruleVars,
          gateVars, chunkVars, twiceVars>>

\* ------------------------------------------------ characters and strings
\* A Python string is a sequence of one-character strings.

UpperLetters ==
    <<"A", "B", "C", "D", "E", "F", "G", "H", "I", "J", "K", "L", "M",
      "N", "O", "P", "Q", "R", "S", "T", "U", "V", "W", "X", "Y", "Z">>
LowerLetters ==
    <<"a", "b", "c", "d", "e", "f", "g", "h", "i", "j", "k", "l", "m",
      "n", "o", "p", "q", "r", "s", "t", "u", "v", "w", "x", "y", "z">>
Digits == <<"0", "1", "2", "3", "4", "5", "6", "7", "8", "9">>
Whitespace == {" "}

SeqRange(q) == {q[i] : i \in 1..Len(q)}
IndexOf(q, c) == CHOOSE i \in 1..Len(q) : q[i] = c

\* ord(char) for the characters of the model (ASCII).
Ord(c) ==
    IF c \in SeqRange(UpperLetters) THEN 64 + IndexOf(UpperLetters, c)
    ELSE IF c \in SeqRange(LowerLetters) THEN 96 + IndexOf(LowerLetters, c)
    ELSE IF c \in SeqRange(Digits) THEN 47 + IndexOf(Digits, c)
    ELSE CASE c = " " -> 32
           [] c = "," -> 44
           [] c = ":" -> 58

\* chr(n) for the code points 65..90.
Chr(n) == UpperLetters[n - 64]

\* str.upper(), character by character.
UpperChar(c) ==
    IF c \in SeqRange(LowerLetters)
      THEN UpperLetters[IndexOf(LowerLetters, c)]
      ELSE c
Upper(str) == [i \in 1..Len(str) |-> UpperChar(str[i])]

\* str.strip()
RECURSIVE LStrip(_)
LStrip(str) ==
    IF str # <<>> /\ Head(str) \in Whitespace THEN LStrip(Tail(str)) ELSE str
RECURSIVE RStrip(_)
RStrip(str) ==
    IF str # <<>> /\ str[Len(str)] \in Whitespace
      THEN RStrip(SubSeq(str, 1, Len(str) - 1))
      ELSE str
Strip(str) == RStrip(LStrip(str))

\* str.split(sep) for a one-character sep: always at least one piece.
RECURSIVE Split(_, _)
Split(str, sep) ==
    IF \A i \in 1..Len(str) : str[i] # sep
      THEN <<str>>
      ELSE LET k == CHOOSE i \in 1..Len(str) :
                        str[i] = sep /\ \A j \in 1..(i - 1) : str[j] # sep
           IN <<SubSeq(str, 1, k - 1)>> \o Split(SubSeq(str, k + 1, Len(str)), sep)

\* The value None, which is no sequence of characters.
None == <<"None">>

\* --------------------------------------------------- the column-spec parser

\* column_letter_to_index: result = result * 26 + (ord(char) - ord('A') + 1)
\* over col_letter.upper(), then result - 1. Nothing checks that char is a
\* letter.
RECURSIVE LetterFold(_, _)
LetterFold(str, result) ==
    IF str = <<>>
      THEN result
      ELSE LetterFold(Tail(str), result * 26 + (Ord(Head(str)) - Ord("A") + 1))
column_letter_to_index(col_letter) == LetterFold(Upper(col_letter), 0) - 1

\* column_index_to_letter (and the display loop of process_sheet_intelligently):
\* temp = col_index + 1; while temp > 0: temp -= 1;
\* letter = chr(temp % 26 + ord('A')) + letter; temp //= 26
RECURSIVE LetterLoop(_, _)
LetterLoop(temp, letter) ==
    IF temp > 0
      THEN LetterLoop((temp - 1) \div 26,
                      <<Chr(((temp - 1) % 26) + Ord("A"))>> \o letter)
      ELSE letter

\* The loop started from col_index instead of col_index + 1.
column_index_to_letter_FromIndex(col_index) == LetterLoop(col_index, <<>>)

column_index_to_letter(col_index) == LetterLoop(col_index + 1, <<>>)

\* A range that accepts its ends in either order.
RangeIndices_Swapped(start_idx, end_idx) ==
    IF start_idx <= end_idx THEN start_idx..end_idx ELSE end_idx..start_idx

\* range(start_idx, end_idx + 1)
RangeIndices(start_idx, end_idx) == start_idx..end_idx

\* sorted(list(columns))
\* (the elements of S, all within lo..hi, in ascending order)
RECURSIVE SortBetween(_, _, _)
SortBetween(S, lo, hi) ==
    IF S = {} THEN <<>>
    ELSE IF lo = hi THEN <<lo>>
    ELSE LET mid == (lo + hi) \div 2
         IN SortBetween({x \in S : x <= mid}, lo, mid)
              \o SortBetween({x \in S : x > mid}, mid + 1, hi)
Least(S) == CHOOSE x \in S : \A y \in S : x <= y

\* The list in descending order.
sorted_list_Descending(columns) ==
    LET up == IF columns = {}
                THEN <<>>
                ELSE SortBetween(columns, Least(columns),
                                 -Least({-x : x \in columns}))
    IN [i \in 1..Len(up) |-> up[Len(up) + 1 - i]]

sorted_list(columns) ==
    IF columns = {}
      THEN <<>>
      ELSE SortBetween(columns, Least(columns), -Least({-x : x \in columns}))

\* The indices one part adds to columns ("raise": the two-target unpacking of
\* part.split(':') fails unless the part holds exactly one colon).
PartResult(part) ==
    IF ":" \in SeqRange(part)
      THEN LET pieces == Split(part, ":")
           IN IF Len(pieces) # 2
                THEN [raise |-> TRUE, indices |-> {}]
                ELSE [raise |-> FALSE,
                      indices |-> RangeIndices(
                          column_letter_to_index(Strip(pieces[1])),
                          column_letter_to_index(Strip(pieces[2])))]
      ELSE [raise |-> FALSE, indices |-> {column_letter_to_index(part)}]

Returned(value) == [kind |-> "list", value |-> value, exc |-> ""]
ReturnedNone == [kind |-> "none", value |-> <<>>, exc |-> ""]
Raised(exc) == [kind |-> "raise", value |-> <<>>, exc |-> exc]
NotCalled == [kind |-> "pending", value |-> <<>>, exc |-> ""]

\* parse_column_range: None for a falsy argument, else the sorted list of the
\* set of indices of the stripped comma-separated parts; the first part that
\* cannot be unpacked raises ValueError.
parse_column_range(spec) ==
    IF spec = None \/ spec = <<>>
      THEN ReturnedNone
      ELSE LET pieces == Split(spec, ",")
               parts == [i \in 1..Len(pieces) |-> PartResult(Strip(pieces[i]))]
           IN IF \E i \in 1..Len(parts) : parts[i].raise
                THEN Raised("ValueError")
                ELSE Returned(sorted_list(
                         UNION {parts[i].indices : i \in 1..Len(parts)}))

\* The parser's variables outside SpecParse.
GateIdle ==
    /\ sheet_name = <<>>
    /\ configured = <<>>
    /\ gate_pc = "idle"
    /\ gate_columns = None

ChunksIdle ==
    /\ chunk_pairs = <<>>
    /\ sheet_rows = 0
    /\ chunk_size = 0
    /\ chunk_start = 0
    /\ chunks_pc = "idle"
    /\ chunks_processed = 0
    /\ chunks_with_changes = 0
    /\ total_replacements = 0
    /\ replacement_details = <<>>
    /\ chunk_failures = 0
    /\ chunk_log = <<>>
    /\ kept_counts = <<>>
    /\ counted_after_failure = FALSE
    /\ units_skipped = {}

TwiceIdle ==
    /\ run_no = 0
    /\ grid_after_first = <<>>
    /\ first_run_updates = 0

RulesIdle ==
    /\ rule_list = <<>>
    /\ grid = <<>>
    /\ first_row = 1
    /\ locked_rows = {}
    /\ rules_pc = "idle"
    /\ grouped_rules = <<>>
    /\ pair_idx = 0
    /\ lookup = <<>>
    /\ update_details = <<>>
    /\ updates_made = 0
    /\ all_affected_rows = {}
    /\ pass_row = 0
    /\ heights_set = {}
    /\ search_reads = <<>>
    /\ cell_log = <<>>

CellIdle ==
    /\ replacement_pairs = <<>>
    /\ sheet_cells = <<>>
    /\ writable = <<>>
    /\ cell_pos = 0
    /\ cell_pc = "idle"
    /\ original_value = <<>>
    /\ cell_value = <<>>
    /\ modified = FALSE
    /\ pattern_idx = 0
    /\ chunk_replacements = <<>>
    /\ subs_log = <<>>
    /\ writes_log = <<>>

LettersIdle ==
    /\ letter_seq = <<>>
    /\ letter_index = 0
    /\ letter_back = <<>>
    /\ letter_pc = "idle"

ScanIdle ==
    /\ scan_pc = "idle"
    /\ used_range = None
    /\ max_rows_to_process = 0
    /\ target_columns = None
    /\ column_indices = ReturnedNone
    /\ cols = 0
    /\ matching = "none"
    /\ start_row = 0
    /\ end_row = 0
    /\ rows_visited = 0
    /\ max_row_read = -1
    /\ max_row_written = -1
    /\ columns_checked = {}

ParseIdle ==
    /\ column_spec = <<>>
    /\ spec_parts = <<>>
    /\ parse_pc = "idle"
    /\ parse_result = NotCalled

\* The engine's locals outside a call of the engine.
EngineIdle ==
    /\ groups = <<>>
    /\ group_idx = 0
    /\ rows_to_process = 0
    /\ row_idx = 0
    /\ sheet_updates = 0

\* ------------------------------------------------------------- main's loop

\* The file loop's variables outside SpecFile.
LoopIdle ==
    /\ total_files = 0
    /\ pc = "idle"
    /\ file_idx = 0
    /\ attempted = <<>>
    /\ successful_files = 0
    /\ failed_files = 0
    /\ app = "none"
    /\ wb = "none"
    /\ app_quit_called = FALSE
    /\ wb_close_called = FALSE
    /\ num_sheets = 0
    /\ sheet_idx = 0
    /\ modifications_made = FALSE
    /\ total_updates = 0
    /\ save_called = FALSE
    /\ cells_written = 0
    /\ success = FALSE

FileIdle ==
    /\ variant = "rules"
    /\ LoopIdle
    /\ EngineIdle

InitFile ==
    /\ variant \in Variants
    /\ total_files \in 1..MaxFiles
    /\ pc = "main_loop"
    /\ file_idx = 0
    /\ attempted = <<>>
    /\ successful_files = 0
    /\ failed_files = 0
    /\ app = "none"
    /\ wb = "none"
    /\ app_quit_called = FALSE
    /\ wb_close_called = FALSE
    /\ num_sheets = 0
    /\ sheet_idx = 0
    /\ modifications_made = FALSE
    /\ total_updates = 0
    /\ save_called = FALSE
    /\ cells_written = 0
    /\ success = FALSE
    /\ EngineIdle
    /\ ParseIdle
    /\ LettersIdle
    /\ ScanIdle
    /\ CellIdle
    /\ RulesIdle
    /\ GateIdle
    /\ ChunksIdle
    /\ TwiceIdle

\* for i, filename in enumerate(excel_files, 1): process_excel_with_xlwings(...)
\* entered with app = None, wb = None.
MainNextFile ==
    /\ pc = "main_loop"
    /\ file_idx < total_files
    /\ attempted' = Append(attempted, file_idx + 1)
    /\ app' = "none"
    /\ wb' = "none"
    /\ app_quit_called' = FALSE
    /\ wb_close_called' = FALSE
    /\ num_sheets' = 0
    /\ sheet_idx' = 0
    /\ modifications_made' = FALSE
    /\ total_updates' = 0
    /\ save_called' = FALSE
    /\ cells_written' = 0
    /\ success' = FALSE
    /\ pc' = "start_app"
    /\ UNCHANGED <<variant, total_files, file_idx, successful_files, failed_files>>
    /\ UNCHANGED engVars
    /\ UNCHANGED outsideFile

\* app = xw.App(visible=False, add_book=False): starts, or raises into the
\* function's except clause.
StartExcel ==
    /\ pc = "start_app"
    /\ \E ok \in BOOLEAN :
         IF ok THEN app' = "started" /\ pc' = "open_wb"
               ELSE app' = app /\ pc' = "except"
    /\ UNCHANGED <<variant, total_files, file_idx, attempted, successful_files,
                   failed_files, wb, app_quit_called, wb_close_called,
                   num_sheets, sheet_idx, modifications_made, total_updates,
                   save_called, cells_written, success>>
    /\ UNCHANGED engVars
    /\ UNCHANGED outsideFile

\* wb = app.books.open(basename ...), with the fallback open(filepath): the
\* workbook is open when either call returns, else the fallback's exception
\* reaches the except clause.
OpenWorkbook ==
    /\ pc = "open_wb"
    /\ \E first_ok \in BOOLEAN, fallback_ok \in BOOLEAN, n \in 1..MaxSheets :
         IF first_ok \/ fallback_ok
           THEN wb' = "open" /\ num_sheets' = n /\ pc' = "sheet_loop"
           ELSE wb' = wb /\ num_sheets' = num_sheets /\ pc' = "except"
    /\ UNCHANGED <<variant, total_files, file_idx, attempted, successful_files,
                   failed_files, app, app_quit_called, wb_close_called,
                   sheet_idx, modifications_made, total_updates,
                   save_called, cells_written, success>>
    /\ UNCHANGED engVars
    /\ UNCHANGED outsideFile

\* for i, sheet in enumerate(wb.sheets, 1): the sheet is skipped by the
\* configuration checks (continue), handed to the engine, or reading
\* sheet.name raises into the function's except clause.
SheetLoop ==
    /\ pc = "sheet_loop"
    /\ IF sheet_idx < num_sheets
         THEN \E what \in {"skip", "process", "raise"} :
                CASE what = "skip" ->
                       /\ sheet_idx' = sheet_idx + 1
                       /\ pc' = "sheet_loop"
                  [] what = "process" ->
                       /\ sheet_idx' = sheet_idx
                       /\ pc' = "engine"
                  [] OTHER ->
                       /\ sheet_idx' = sheet_idx
                       /\ pc' = "except"
         ELSE /\ sheet_idx' = sheet_idx
              /\ pc' = "save"
    /\ UNCHANGED <<variant, total_files, file_idx, attempted, successful_files,
                   failed_files, app, wb, app_quit_called, wb_close_called,
                   num_sheets, modifications_made, total_updates,
                   save_called, cells_written, success>>
    /\ UNCHANGED engVars
    /\ UNCHANGED outsideFile

\* ------------------------------------------------- the engines, per sheet

\* process_sheet_with_rules up to the grouping: sheet.used_range is None or
\* reading its shape raises (return 0, {}), else rows_to_process =
\* min(rows, max_rows_to_process) and the rules are grouped by column pair.
\* A group is valid when both of its column letters are strings, so that
\* column_letter_to_index converts them (main builds the rules with
\* rule.get('search_column'), which is None for a rule without the key).
RulesAnalyze ==
    /\ pc = "engine"
    /\ variant = "rules"
    /\ \E readable \in BOOLEAN, rows \in 0..MaxVisits, n \in 1..MaxGroups :
       \E g \in [1..n -> BOOLEAN] :
         IF readable
           THEN /\ rows_to_process' = RowLimit(rows, DefaultMaxRows)
                /\ groups' = g
                /\ group_idx' = 0
                /\ row_idx' = 0
                /\ sheet_updates' = 0
                /\ pc' = "group_loop"
           ELSE /\ rows_to_process' = 0
                /\ groups' = <<>>
                /\ group_idx' = 0
                /\ row_idx' = 0
                /\ sheet_updates' = 0
                /\ pc' = "sheet_result"
    /\ UNCHANGED fileRest
    /\ UNCHANGED cells_written
    /\ UNCHANGED outsideFile

\* for (search_col, update_col), rule_group in grouped_rules.items(): the
\* column letters are converted before the row pass; a failing conversion
\* leaves the function through its outer except, which returns 0, {}.
RulesGroupLoop ==
    /\ pc = "group_loop"
    /\ IF group_idx < Len(groups)
         THEN IF groups[group_idx + 1]
                THEN /\ row_idx' = 0
                     /\ sheet_updates' = sheet_updates
                     /\ pc' = "row_loop"
                ELSE /\ row_idx' = row_idx
                     /\ sheet_updates' = 0
                     /\ pc' = "sheet_result"
         ELSE /\ row_idx' = row_idx
              /\ sheet_updates' = sheet_updates
              /\ pc' = "sheet_result"
    /\ UNCHANGED <<groups, group_idx, rows_to_process>>
    /\ UNCHANGED fileRest
    /\ UNCHANGED cells_written
    /\ UNCHANGED outsideFile

\* One row of the single pass of a group: the search cell does not match or
\* the update cell is up to date ("skip"); the update cell is assigned and
\* the counters follow ("write_ok"); the assignment raises and the row's
\* except clause skips the counters ("write_fail").
RulesRow ==
    /\ pc = "row_loop"
    /\ variant = "rules"
    /\ IF row_idx < rows_to_process
         THEN /\ \E outcome \in {"skip", "write_ok", "write_fail"} :
                   IF outcome = "write_ok"
                     THEN /\ cells_written' = cells_written + 1
                          /\ sheet_updates' = sheet_updates + 1
                     ELSE /\ cells_written' = cells_written
                          /\ sheet_updates' = sheet_updates
              /\ row_idx' = row_idx + 1
              /\ group_idx' = group_idx
              /\ pc' = "row_loop"
         ELSE /\ cells_written' = cells_written
              /\ sheet_updates' = sheet_updates
              /\ row_idx' = row_idx
              /\ group_idx' = group_idx + 1
              /\ pc' = "group_loop"
    /\ UNCHANGED <<groups, rows_to_process>>
    /\ UNCHANGED fileRest
    /\ UNCHANGED outsideFile

\* process_sheet_intelligently up to the call of process_sheet_in_chunks:
\* parse_column_range raises, the used range is None or its shape cannot be
\* read (return 0, {}), else rows_to_process = min(rows, 300).
ReplaceAnalyze ==
    /\ pc = "engine"
    /\ variant = "replace"
    /\ \E readable \in BOOLEAN, rows \in 0..MaxVisits :
         IF readable
           THEN /\ rows_to_process' = RowLimit(rows, ReplaceRowCap)
                /\ pc' = "row_loop"
           ELSE /\ rows_to_process' = 0
                /\ pc' = "sheet_result"
    /\ groups' = <<>>
    /\ group_idx' = 0
    /\ row_idx' = 0
    /\ sheet_updates' = 0
    /\ UNCHANGED fileRest
    /\ UNCHANGED cells_written
    /\ UNCHANGED outsideFile

\* One eligible cell of process_chunk: no pattern matches ("skip"), or some
\* do and chunk_replacements is raised by the substitutions made BEFORE
\* cell.value is assigned; the assignment succeeds ("write_ok") or raises
\* into the cell's except clause ("write_fail"), which keeps the counts.
ReplaceCell ==
    /\ pc = "row_loop"
    /\ variant = "replace"
    /\ IF row_idx < rows_to_process
         THEN /\ \E outcome \in {"skip", "write_ok", "write_fail"},
                    num_subs \in 1..MaxSubs :
                   /\ sheet_updates' = IF outcome = "skip" THEN sheet_updates
                                       ELSE sheet_updates + num_subs
                   /\ cells_written' = IF outcome = "write_ok"
                                       THEN cells_written + 1
                                       ELSE cells_written
              /\ row_idx' = row_idx + 1
              /\ pc' = "row_loop"
         ELSE /\ sheet_updates' = sheet_updates
              /\ cells_written' = cells_written
              /\ row_idx' = row_idx
              /\ pc' = "sheet_result"
    /\ UNCHANGED <<groups, group_idx, rows_to_process>>
    /\ UNCHANGED fileRest
    /\ UNCHANGED outsideFile

\* Back in process_excel_with_xlwings: if sheet_updates > 0 the file's total
\* grows and modifications_made is set. The engine's locals are gone.
SheetResult ==
    /\ pc = "sheet_result"
    /\ IF sheet_updates > 0
         THEN /\ total_updates' = total_updates + sheet_updates
              /\ modifications_made' = TRUE
         ELSE /\ total_updates' = total_updates
              /\ modifications_made' = modifications_made
    /\ sheet_idx' = sheet_idx + 1
    /\ pc' = "sheet_loop"
    /\ groups' = <<>>
    /\ group_idx' = 0
    /\ rows_to_process' = 0
    /\ row_idx' = 0
    /\ sheet_updates' = 0
    /\ UNCHANGED <<mainVars, handleVars, num_sheets, save_called, cells_written,
                   success>>
    /\ UNCHANGED outsideFile

\* if modifications_made: wb.save() returns (True, total, details) or raises
\* (return False, 0, {}); else return True, 0, details.
SaveWorkbook ==
    /\ pc = "save"
    /\ IF modifications_made
         THEN /\ save_called' = TRUE
              /\ \E save_ok \in BOOLEAN :
                   /\ success' = save_ok
                   /\ total_updates' = IF save_ok THEN total_updates ELSE 0
         ELSE /\ save_called' = save_called
              /\ success' = TRUE
              /\ total_updates' = 0
    /\ pc' = "finally"
    /\ UNCHANGED <<mainVars, handleVars, num_sheets, sheet_idx,
                   modifications_made, cells_written>>
    /\ UNCHANGED engVars
    /\ UNCHANGED outsideFile

\* except Exception as e: return False, 0, {}
ExceptHandler ==
    /\ pc = "except"
    /\ success' = FALSE
    /\ total_updates' = 0
    /\ pc' = "finally"
    /\ UNCHANGED <<mainVars, handleVars, num_sheets, sheet_idx,
                   modifications_made, save_called, cells_written>>
    /\ UNCHANGED engVars
    /\ UNCHANGED outsideFile

\* finally: one try block holds "if wb: wb.close()" followed by
\* "if app: app.quit()"; an exception of wb.close() leaves the block for
\* "except Exception as cleanup_error" before app.quit() is reached.
Cleanup ==
    /\ pc = "finally"
    /\ \E close_ok \in BOOLEAN :
         /\ wb_close_called' = (wb = "open")
         /\ app_quit_called' = (app = "started" /\ (wb = "open" => close_ok))
    /\ pc' = "tally"
    /\ UNCHANGED <<mainVars, app, wb, bookVars>>
    /\ UNCHANGED engVars
    /\ UNCHANGED outsideFile

\* A loop that stops at the first failed file.
TallyFile_StopsOnFailure ==
    /\ pc = "tally"
    /\ IF success
         THEN /\ successful_files' = successful_files + 1
              /\ failed_files' = failed_files
              /\ pc' = "main_loop"
         ELSE /\ successful_files' = successful_files
              /\ failed_files' = failed_files + 1
              /\ pc' = "summary"
    /\ file_idx' = file_idx + 1
    /\ UNCHANGED <<variant, total_files, attempted, handleVars, bookVars>>
    /\ UNCHANGED engVars
    /\ UNCHANGED outsideFile

\* if success: successful_files += 1 ... else: failed_files += 1
TallyFile ==
    /\ pc = "tally"
    /\ IF success
         THEN /\ successful_files' = successful_files + 1
              /\ failed_files' = failed_files
         ELSE /\ successful_files' = successful_files
              /\ failed_files' = failed_files + 1
    /\ file_idx' = file_idx + 1
    /\ pc' = "main_loop"
    /\ UNCHANGED <<variant, total_files, attempted, handleVars, bookVars>>
    /\ UNCHANGED engVars
    /\ UNCHANGED outsideFile

\* The loop is exhausted: the summary block is printed.
Summary ==
    /\ pc = "main_loop"
    /\ file_idx = total_files
    /\ pc' = "summary"
    /\ UNCHANGED <<mainVars, handleVars, bookVars>>
    /\ UNCHANGED engVars
    /\ UNCHANGED outsideFile

NextFile ==
    \/ MainNextFile
    \/ StartExcel
    \/ OpenWorkbook
    \/ SheetLoop
    \/ RulesAnalyze
    \/ RulesGroupLoop
    \/ RulesRow
    \/ ReplaceAnalyze
    \/ ReplaceCell
    \/ SheetResult
    \/ SaveWorkbook
    \/ ExceptHandler
    \/ Cleanup
    \/ TallyFile
    \/ Summary

SpecFile == InitFile /\ [][NextFile]_vars

\* Every call the loop makes returns, so the loop keeps stepping.
FairSpecFile == SpecFile /\ WF_vars(NextFile)


\* ------------------------------------------------------------- SpecParse
\* parse_column_range applied to column specifications: specifications
\* written out from a list of parts, and free text.

SeqsUpTo(S, n) == UNION {[1..k -> S] : k \in 0..n}

\* A part of a column specification: one column (b unused) or a range a:b.
Single(a) == [kind |-> "single", a |-> a, b |-> <<>>, pad |-> FALSE]
RangeOf(a, b) == [kind |-> "range", a |-> a, b |-> b, pad |-> FALSE]

LetterTokens == {<<"A">>, <<"C">>, <<"b">>, <<"A", "A">>}
BrokenTokens == {<<>>, <<"A", "1">>}
Tokens == LetterTokens \cup BrokenTokens
PartShapes ==
    {Single(a) : a \in Tokens} \cup {RangeOf(t[1], t[2]) : t \in Tokens \X Tokens}

\* The examples of the parser's documentation: "A,C:E,G" and "B,D:F,H".
ExampleACEG == <<Single(<<"A">>), RangeOf(<<"C">>, <<"E">>), Single(<<"G">>)>>
ExampleBDFH == <<Single(<<"B">>), RangeOf(<<"D">>, <<"F">>), Single(<<"H">>)>>

Padded(parts, pad) == [i \in 1..Len(parts) |-> [parts[i] EXCEPT !.pad = pad]]

StructuredSpecs ==
    {Padded(parts, pad) :
        parts \in (SeqsUpTo(PartShapes, MaxParts) \ {<<>>})
                     \cup {ExampleACEG, ExampleBDFH},
        pad \in BOOLEAN}

\* The text of a part and of a list of parts, as a user writes them.
RenderPart(part) ==
    LET sp == IF part.pad THEN <<" ">> ELSE <<>>
    IN IF part.kind = "single"
         THEN sp \o part.a \o sp
         ELSE sp \o part.a \o sp \o <<":">> \o sp \o part.b \o sp
RECURSIVE Render(_)
Render(parts) ==
    IF Len(parts) = 1
      THEN RenderPart(parts[1])
      ELSE RenderPart(parts[1]) \o <<",">> \o Render(Tail(parts))

\* Free text over letters, commas, colons and whitespace, the absent
\* specification, and a part with two colons.
RawChars == {"A", "b", ",", ":", " "}
ExampleTwoColons == <<"A", ":", "B", ":", "C">>
RawSpecs == SeqsUpTo(RawChars, MaxSpecLen) \cup {None, ExampleTwoColons}

InitParse ==
    /\ parse_pc = "input"
    /\ parse_result = NotCalled
    /\ \/ \E parts \in StructuredSpecs :
            /\ spec_parts = parts
            /\ column_spec = Render(parts)
       \/ \E text \in RawSpecs :
            /\ spec_parts = <<>>
            /\ column_spec = text
    /\ FileIdle
    /\ LettersIdle
    /\ ScanIdle
    /\ CellIdle
    /\ RulesIdle
    /\ GateIdle
    /\ ChunksIdle
    /\ TwiceIdle

\* column_indices = parse_column_range(target_columns)
Parse ==
    /\ parse_pc = "input"
    /\ parse_result' = parse_column_range(column_spec)
    /\ parse_pc' = "parsed"
    /\ UNCHANGED <<column_spec, spec_parts>>
    /\ UNCHANGED outsideParse

NextParse == Parse

SpecParse == InitParse /\ [][NextParse]_vars

\* ------------------------------------------- SpecLetters: the two converters

\* The columns written with up to MaxLetters capital letters.
LetterSeqs == SeqsUpTo(SeqRange(UpperLetters), MaxLetters) \ {<<>>}

InitLetters ==
    /\ letter_seq \in LetterSeqs
    /\ letter_index = 0
    /\ letter_back = <<>>
    /\ letter_pc = "letters"
    /\ FileIdle
    /\ ParseIdle
    /\ ScanIdle
    /\ CellIdle
    /\ RulesIdle
    /\ GateIdle
    /\ ChunksIdle
    /\ TwiceIdle

\* search_col_idx = column_letter_to_index(search_col)
LetterToIndex ==
    /\ letter_pc = "letters"
    /\ letter_index' = column_letter_to_index(letter_seq)
    /\ letter_pc' = "index"
    /\ UNCHANGED <<letter_seq, letter_back>>
    /\ UNCHANGED outsideLetters

\* column_index_to_letter applied to the index just computed
IndexToLetter ==
    /\ letter_pc = "index"
    /\ letter_back' = column_index_to_letter(letter_index)
    /\ letter_pc' = "back"
    /\ UNCHANGED <<letter_seq, letter_index>>
    /\ UNCHANGED outsideLetters

NextLetters ==
    \/ LetterToIndex
    \/ IndexToLetter

SpecLetters == InitLetters /\ [][NextLetters]_vars

\* ------------------------------------ SpecScan: one sheet, row by row

\* The sheets scanned: a used range of one row, or of about the default cap
\* of rows, with fewer or more columns than the default column limit.
UsedRowChoices ==
    {1} \cup ((DefaultMaxRows - 1)..(DefaultMaxRows + MaxExtraRows))
UsedColChoices == {3, DefaultColumns + 1}
UsedRanges == {None} \cup (UsedRowChoices \X UsedColChoices)
ConfiguredCaps == {0, 2, DefaultMaxRows}
\* 'columns' settings: absent, "", "A", "C:A", "B,D", "A:B:C", " "
ScanSpecs ==
    {None, <<>>, <<"A">>, <<"C", ":", "A">>, <<"B", ",", "D">>,
     ExampleTwoColons, <<" ">>}
Layouts == {"none", "all", "last"}

\* Python's truth value of a string or None, and of a parsed index list.
StrTruthy(str) == str # None /\ str # <<>>
ListTruthy(result) == result.kind = "list" /\ result.value # <<>>

Max(a, b) == IF a >= b THEN a ELSE b
MaxOf(S) == -Least({-x : x \in S})

\* Row row of the used range holds a cell that a rule or a pattern matches.
Matches(row) ==
    \/ matching = "all"
    \/ matching = "last" /\ row = used_range[1] - 1

InitScan ==
    /\ variant \in Variants
    /\ used_range \in UsedRanges
    /\ matching \in Layouts
    /\ IF variant = "rules"
         THEN /\ max_rows_to_process \in ConfiguredCaps
              /\ target_columns = None
              /\ \E n \in 1..MaxGroups : groups \in [1..n -> BOOLEAN]
         ELSE /\ max_rows_to_process = ReplaceRowCap
              /\ target_columns \in ScanSpecs
              /\ groups = <<>>
    /\ scan_pc = "analyze"
    /\ column_indices = ReturnedNone
    /\ cols = 0
    /\ start_row = 0
    /\ end_row = 0
    /\ rows_visited = 0
    /\ max_row_read = -1
    /\ max_row_written = -1
    /\ columns_checked = {}
    /\ group_idx = 0
    /\ rows_to_process = 0
    /\ row_idx = 0
    /\ sheet_updates = 0
    /\ LoopIdle
    /\ ParseIdle
    /\ LettersIdle
    /\ CellIdle
    /\ RulesIdle
    /\ GateIdle
    /\ ChunksIdle
    /\ TwiceIdle

\* process_sheet_intelligently: the column setting is parsed when it is
\* truthy (a raise leaves through the outer except), the used range is read
\* (None, or a shape that cannot be read, returns 0, {}), the rows are
\* capped and cols is cut to the highest target column when column_indices
\* is truthy.
ScanReplaceAnalyze ==
    /\ scan_pc = "analyze"
    /\ variant = "replace"
    /\ LET parsed == IF StrTruthy(target_columns)
                       THEN parse_column_range(target_columns)
                       ELSE ReturnedNone
       IN \E readable \in BOOLEAN :
            IF parsed.kind = "raise"
              THEN /\ column_indices' = column_indices
                   /\ rows_to_process' = 0
                   /\ cols' = 0
                   /\ scan_pc' = "returned_early"
              ELSE /\ column_indices' = parsed
                   /\ IF used_range = None \/ ~readable
                        THEN /\ rows_to_process' = 0
                             /\ cols' = 0
                             /\ scan_pc' = "returned_early"
                        ELSE /\ rows_to_process' =
                                  RowLimit(used_range[1], ReplaceRowCap)
                             /\ cols' =
                                  IF ListTruthy(parsed)
                                    THEN Min(used_range[2],
                                             MaxOf(SeqRange(parsed.value)) + 1)
                                    ELSE used_range[2]
                             /\ scan_pc' = "chunk_loop"
    /\ start_row' = 0
    /\ UNCHANGED <<sheetVars, end_row, rows_visited, max_row_read,
                   max_row_written, columns_checked>>
    /\ UNCHANGED <<variant, groups, group_idx, row_idx>>
    /\ UNCHANGED outsideScan

\* process_sheet_in_chunks' choice of a chunk size
ChunkSize(rows) ==
    IF rows > 100000 THEN 500
    ELSE IF rows > 10000 THEN 1000
    ELSE 5000

\* for start_row in range(0, rows, chunk_size): end_row = min(...), then
\* process_chunk's row loop starts at start_row.
ScanChunkLoop ==
    /\ scan_pc = "chunk_loop"
    /\ IF start_row < rows_to_process
         THEN /\ end_row' = Min(start_row + ChunkSize(rows_to_process),
                                rows_to_process)
              /\ row_idx' = start_row
              /\ scan_pc' = "chunk_rows"
         ELSE /\ end_row' = end_row
              /\ row_idx' = row_idx
              /\ scan_pc' = "done"
    /\ UNCHANGED <<sheetVars, column_indices, cols, start_row, rows_visited,
                   max_row_read, max_row_written, columns_checked>>
    /\ UNCHANGED <<variant, groups, group_idx, rows_to_process>>
    /\ UNCHANGED outsideScan

\* One row of process_chunk: the columns to check are the target indices
\* below cols when target_column_indices is truthy, else the first
\* min(cols, 108); every such cell is read, and assigned when a pattern
\* matches it.
ScanChunkRow ==
    /\ scan_pc = "chunk_rows"
    /\ IF row_idx < end_row
         THEN LET columns_to_check ==
                      IF ListTruthy(column_indices)
                        THEN {col_idx \in SeqRange(column_indices.value) :
                                col_idx < cols}
                        ELSE 0..(Min(cols, DefaultColumns) - 1)
              IN /\ columns_checked' = columns_to_check
                 /\ max_row_read' = IF columns_to_check = {}
                                      THEN max_row_read
                                      ELSE Max(max_row_read, row_idx)
                 /\ max_row_written' =
                      IF columns_to_check # {} /\ Matches(row_idx)
                        THEN Max(max_row_written, row_idx)
                        ELSE max_row_written
                 /\ rows_visited' = rows_visited + 1
                 /\ row_idx' = row_idx + 1
                 /\ start_row' = start_row
                 /\ scan_pc' = "chunk_rows"
         ELSE /\ start_row' = start_row + ChunkSize(rows_to_process)
              /\ scan_pc' = "chunk_loop"
              /\ UNCHANGED <<columns_checked, max_row_read, max_row_written,
                             rows_visited, row_idx>>
    /\ UNCHANGED <<sheetVars, column_indices, cols, end_row>>
    /\ UNCHANGED <<variant, groups, group_idx, rows_to_process>>
    /\ UNCHANGED outsideScan

\* process_sheet_with_rules up to the group loop: the used range is None or
\* its shape cannot be read (return 0, {}), else the rows are capped by
\* max_rows_to_process.
ScanRulesAnalyze ==
    /\ scan_pc = "analyze"
    /\ variant = "rules"
    /\ \E readable \in BOOLEAN :
         IF used_range = None \/ ~readable
           THEN /\ rows_to_process' = 0
                /\ cols' = 0
                /\ scan_pc' = "returned_early"
           ELSE /\ rows_to_process' = RowLimit(used_range[1], max_rows_to_process)
                /\ cols' = used_range[2]
                /\ scan_pc' = "group_loop"
    /\ group_idx' = 0
    /\ UNCHANGED <<sheetVars, column_indices, start_row, end_row, rows_visited,
                   max_row_read, max_row_written, columns_checked>>
    /\ UNCHANGED <<variant, groups, row_idx>>
    /\ UNCHANGED outsideScan

\* for (search_col, update_col), rule_group in grouped_rules.items(): a
\* group whose letters do not convert leaves through the outer except.
ScanRulesGroup ==
    /\ scan_pc = "group_loop"
    /\ IF group_idx < Len(groups)
         THEN /\ row_idx' = 0
              /\ scan_pc' = IF groups[group_idx + 1] THEN "group_rows"
                            ELSE "returned_early"
         ELSE /\ row_idx' = row_idx
              /\ scan_pc' = "done"
    /\ UNCHANGED <<sheetVars, column_indices, cols, start_row, end_row,
                   rows_visited, max_row_read, max_row_written,
                   columns_checked>>
    /\ UNCHANGED <<variant, groups, group_idx, rows_to_process>>
    /\ UNCHANGED outsideScan

\* for row_idx in range(rows_to_process): the search cell is read; when it
\* matches a rule the update cell of the row is read and assigned.
ScanRulesRow ==
    /\ scan_pc = "group_rows"
    /\ IF row_idx < rows_to_process
         THEN /\ max_row_read' = Max(max_row_read, row_idx)
              /\ max_row_written' = IF Matches(row_idx)
                                      THEN Max(max_row_written, row_idx)
                                      ELSE max_row_written
              /\ rows_visited' = rows_visited + 1
              /\ row_idx' = row_idx + 1
              /\ group_idx' = group_idx
              /\ scan_pc' = "group_rows"
         ELSE /\ group_idx' = group_idx + 1
              /\ scan_pc' = "group_loop"
              /\ UNCHANGED <<max_row_read, max_row_written, rows_visited,
                             row_idx>>
    /\ UNCHANGED <<sheetVars, column_indices, cols, start_row, end_row,
                   columns_checked>>
    /\ UNCHANGED <<variant, groups, rows_to_process>>
    /\ UNCHANGED outsideScan

NextScan ==
    \/ ScanReplaceAnalyze
    \/ ScanChunkLoop
    \/ ScanChunkRow
    \/ ScanRulesAnalyze
    \/ ScanRulesGroup
    \/ ScanRulesRow

SpecScan == InitScan /\ [][NextScan]_vars

\* --------------------------- SpecCell: process_chunk, cell by cell

\* text[k..] starts with find_text, letter for letter.
MatchesAt_CaseSensitive(text, find_text, k) ==
    /\ k + Len(find_text) - 1 <= Len(text)
    /\ \A j \in 1..Len(find_text) : text[k + j - 1] = find_text[j]

\* text[k..] starts with find_text, letter case ignored (re.IGNORECASE on
\* the escaped, hence literal, find_text).
MatchesAt(text, find_text, k) ==
    /\ k + Len(find_text) - 1 <= Len(text)
    /\ \A j \in 1..Len(find_text) :
         UpperChar(text[k + j - 1]) = UpperChar(find_text[j])

\* compiled_re.subn(replace_text, cell_value) for a non-empty find_text and
\* a replace_text without backslashes: the matches are taken from the left,
\* none overlapping the one before it; the result is (new_value, num_subs).
RECURSIVE SubnFrom(_, _, _, _)
SubnFrom(text, find_text, replace_text, k) ==
    IF k > Len(text)
      THEN [new_value |-> <<>>, num_subs |-> 0]
      ELSE IF MatchesAt(text, find_text, k)
        THEN LET rest == SubnFrom(text, find_text, replace_text,
                                  k + Len(find_text))
             IN [new_value |-> replace_text \o rest.new_value,
                 num_subs |-> rest.num_subs + 1]
        ELSE LET rest == SubnFrom(text, find_text, replace_text, k + 1)
             IN [new_value |-> <<text[k]>> \o rest.new_value,
                 num_subs |-> rest.num_subs]
subn(find_text, replace_text, text) == SubnFrom(text, find_text, replace_text, 1)

\* The pairs a list is made of, the lists, and the documented examples:
\* [("foo","bar")] on "Foo and foo", [("A","B"),("B","C")] on "A".
PairChoices ==
    {<<<<"A">>, <<"B">>>>, <<<<"B">>, <<"C">>>>, <<<<"A">>, <<"A", "A">>>>,
     <<<<"A", "b">>, <<>>>>}
ExampleFooBar == <<<<<<"f", "o", "o">>, <<"b", "a", "r">>>>>>
ExampleFooText == <<"F", "o", "o", " ", "a", "n", "d", " ", "f", "o", "o">>
\* A pair whose find text is a space: [(" ", "b")].
BlankPair == <<<<<<" ">>, <<"b">>>>>>
\* A pair that replaces a text by itself, [("b", "b")], and two pairs of
\* which the second undoes the first, [("A", "b"), ("b", "A")].
SamePair == <<<<<<"b">>, <<"b">>>>>>
UndoPairs == <<<<<<"A">>, <<"b">>>>, <<<<"b">>, <<"A">>>>>>
PairLists ==
    (SeqsUpTo(PairChoices, MaxPairs) \ {<<>>})
      \cup {ExampleFooBar, BlankPair, SamePair, UndoPairs}
CellChars == {"A", "b"}
\* What cell.value hands over for a cell that holds no text: None for an
\* empty cell, a float, a bool, a datetime.
NumberFive == <<"number", "5.0">>
BoolTrue == <<"bool", "True">>
DateValue == <<"datetime", "2024-01-01 00:00:00">>
NonTextValues == {None, NumberFive, BoolTrue, DateValue}
\* The values of a cell: texts (the empty one and one of a single space
\* among them) and values that are no text.
CellTexts ==
    SeqsUpTo(CellChars, MaxCellLen) \cup {ExampleFooText, <<" ">>}
      \cup NonTextValues
\* The values of the cell that comes second: the empty text, "A", a
\* space, an empty cell and a number.
SecondCellTexts == {<<>>, <<"A">>, <<" ">>, None, NumberFive}

\* isinstance(cell_value, str)
IsStr(value) == value \notin NonTextValues
\* The test without the strip().
Eligible_NoStrip(value) == value \notin {None, <<>>} /\ IsStr(value)
\* if cell_value and isinstance(cell_value, str) and len(cell_value.strip()) > 0
Eligible(value) ==
    /\ value \notin {None, <<>>}
    /\ IsStr(value)
    /\ Len(Strip(value)) > 0

InitCell ==
    /\ replacement_pairs \in PairLists
    /\ sheet_cells \in {<<first, second>> :
                          first \in CellTexts, second \in SecondCellTexts}
    /\ writable \in [1..2 -> BOOLEAN]
    /\ cell_pos = 0
    /\ cell_pc = "next_cell"
    /\ original_value = <<>>
    /\ cell_value = <<>>
    /\ modified = FALSE
    /\ pattern_idx = 0
    /\ chunk_replacements =
         [find_text \in {replacement_pairs[i][1] :
                           i \in 1..Len(replacement_pairs)} |-> 0]
    /\ subs_log = [c \in 1..2 |-> <<>>]
    /\ writes_log = [c \in 1..2 |-> <<>>]
    /\ FileIdle
    /\ ParseIdle
    /\ LettersIdle
    /\ ScanIdle
    /\ RulesIdle
    /\ GateIdle
    /\ ChunksIdle
    /\ TwiceIdle

\* cell = used_range[row_idx, col_idx]; cell_value = cell.value; a cell that
\* is not a string with content is passed over.
ReadCell ==
    /\ cell_pc = "next_cell"
    /\ IF cell_pos < Len(sheet_cells)
         THEN IF Eligible(sheet_cells[cell_pos + 1])
                THEN /\ cell_value' = sheet_cells[cell_pos + 1]
                     /\ original_value' = sheet_cells[cell_pos + 1]
                     /\ modified' = FALSE
                     /\ pattern_idx' = 0
                     /\ cell_pos' = cell_pos
                     /\ cell_pc' = "patterns"
                ELSE /\ cell_pos' = cell_pos + 1
                     /\ cell_pc' = "next_cell"
                     /\ UNCHANGED <<cell_value, original_value, modified,
                                    pattern_idx>>
         ELSE /\ cell_pc' = "done"
              /\ UNCHANGED <<cell_pos, cell_value, original_value, modified,
                             pattern_idx>>
    /\ UNCHANGED <<replacement_pairs, sheet_cells, writable,
                   chunk_replacements, subs_log, writes_log>>
    /\ UNCHANGED outsideCell

\* The pattern loop assigning the cell at every pattern that matched.
ApplyPattern_WritesEachTime ==
    /\ cell_pc = "patterns"
    /\ IF pattern_idx < Len(replacement_pairs)
         THEN LET find_text == replacement_pairs[pattern_idx + 1][1]
                  replace_text == replacement_pairs[pattern_idx + 1][2]
                  result == subn(find_text, replace_text, cell_value)
              IN /\ IF result.num_subs > 0
                      THEN /\ cell_value' = result.new_value
                           /\ chunk_replacements' =
                                [chunk_replacements EXCEPT
                                   ![find_text] = @ + result.num_subs]
                           /\ modified' = TRUE
                           /\ writes_log' =
                                [writes_log EXCEPT ![cell_pos + 1] =
                                   Append(@, result.new_value)]
                      ELSE UNCHANGED <<cell_value, chunk_replacements,
                                       modified, writes_log>>
                 /\ subs_log' = [subs_log EXCEPT ![cell_pos + 1] =
                                   Append(@, result.num_subs)]
                 /\ pattern_idx' = pattern_idx + 1
                 /\ cell_pc' = "patterns"
         ELSE /\ cell_pc' = "update"
              /\ UNCHANGED <<cell_value, chunk_replacements, modified,
                             subs_log, pattern_idx, writes_log>>
    /\ UNCHANGED <<replacement_pairs, sheet_cells, writable, cell_pos,
                   original_value>>
    /\ UNCHANGED outsideCell

\* One turn of "for find_text, compiled_re, replace_text in
\* compiled_patterns": subn on the current cell_value; when num_subs > 0 the
\* value is replaced, chunk_replacements[find_text] grows by num_subs and
\* modified is set.
ApplyPattern ==
    /\ cell_pc = "patterns"
    /\ IF pattern_idx < Len(replacement_pairs)
         THEN LET find_text == replacement_pairs[pattern_idx + 1][1]
                  replace_text == replacement_pairs[pattern_idx + 1][2]
                  result == subn(find_text, replace_text, cell_value)
              IN /\ IF result.num_subs > 0
                      THEN /\ cell_value' = result.new_value
                           /\ chunk_replacements' =
                                [chunk_replacements EXCEPT
                                   ![find_text] = @ + result.num_subs]
                           /\ modified' = TRUE
                      ELSE UNCHANGED <<cell_value, chunk_replacements,
                                       modified>>
                 /\ subs_log' = [subs_log EXCEPT ![cell_pos + 1] =
                                   Append(@, result.num_subs)]
                 /\ pattern_idx' = pattern_idx + 1
                 /\ cell_pc' = "patterns"
         ELSE /\ cell_pc' = "update"
              /\ UNCHANGED <<cell_value, chunk_replacements, modified,
                             subs_log, pattern_idx>>
    /\ UNCHANGED <<replacement_pairs, sheet_cells, writable, cell_pos,
                   original_value, writes_log>>
    /\ UNCHANGED outsideCell

\* if modified: cell.value = cell_value. An assignment that raises (a
\* protected sheet) is caught by the cell's except clause, which goes on to
\* the next cell; the counts stay as they are.
UpdateCell ==
    /\ cell_pc = "update"
    /\ IF modified /\ writable[cell_pos + 1]
         THEN /\ sheet_cells' = [sheet_cells EXCEPT ![cell_pos + 1] = cell_value]
              /\ writes_log' = [writes_log EXCEPT ![cell_pos + 1] =
                                  Append(@, cell_value)]
         ELSE UNCHANGED <<sheet_cells, writes_log>>
    /\ cell_pos' = cell_pos + 1
    /\ cell_pc' = "next_cell"
    /\ UNCHANGED <<replacement_pairs, writable, original_value, cell_value,
                   modified, pattern_idx, chunk_replacements, subs_log>>
    /\ UNCHANGED outsideCell

NextCell ==
    \/ ReadCell
    \/ ApplyPattern
    \/ UpdateCell

SpecCell == InitCell /\ [][NextCell]_vars

\* ------------------- SpecRules: process_sheet_with_rules on a small sheet

\* str.lower(), character by character.
LowerChar(c) ==
    IF c \in SeqRange(UpperLetters)
      THEN LowerLetters[IndexOf(UpperLetters, c)]
      ELSE c
Lower(str) == [i \in 1..Len(str) |-> LowerChar(str[i])]

\* A cell holding the number 0, which Excel hands over as the float 0.0.
NumberZero == <<"number", "0.0">>
\* str(value) and the truth value of a cell value
StrOf(value) == IF value = NumberZero THEN <<"0", ".", "0">> ELSE value
Falsy(value) == value \in {None, <<>>, NumberZero}
\* str(...).strip().lower()
Normalized(value) == Lower(Strip(StrOf(value)))

\* The rules of a sheet: the search column is A, the update column B or C,
\* the search value " X", "y" or "0.0"; the rule at position i has the
\* target "T<i>" and, when the rules are named, a name of its own.
RuleShapes ==
    {[search_value |-> sv, update_column |-> uc] :
        sv \in {<<" ", "X">>, <<"y">>}, uc \in {<<"B">>, <<"C">>}}
      \cup {[search_value |-> <<"0", ".", "0">>, update_column |-> <<"B">>]}
TargetOf(i) == <<"T", Digits[i + 1]>>
UnnamedRule == <<"Unnamed rule", 0>>
RuleLists ==
    {[i \in 1..Len(shapes) |->
        [name |-> IF named THEN <<"rule", i>> ELSE UnnamedRule,
         search_column |-> <<"A">>,
         search_value |-> shapes[i].search_value,
         update_column |-> shapes[i].update_column,
         target_value |-> TargetOf(i)]] :
        shapes \in SeqsUpTo(RuleShapes, MaxRules) \ {<<>>}, named \in BOOLEAN}

\* The rows a sheet is made of: the values of columns A, B and C.
RowChoices ==
    {<<<<"x">>, None, None>>,
     <<<<"X", " ">>, <<"T", "1">>, <<"T", "2">>>>,
     <<<<"y">>, <<" ", "T", "1">>, <<"t", "2">>>>,
     <<NumberZero, None, None>>,
     <<None, <<"T", "1">>, None>>,
     <<<<"x", "y">>, None, None>>}

InitRules ==
    /\ rule_list \in RuleLists
    /\ grid \in [1..2 -> RowChoices]
    /\ first_row \in {1, 3}
    /\ locked_rows \in {{}, {0}}
    /\ rules_pc = "group"
    /\ grouped_rules = <<>>
    /\ pair_idx = 0
    /\ lookup = <<>>
    /\ update_details = <<>>
    /\ updates_made = 0
    /\ all_affected_rows = {}
    /\ pass_row = 0
    /\ heights_set = {}
    /\ search_reads = <<>>
    /\ cell_log = <<>>
    /\ FileIdle
    /\ ParseIdle
    /\ LettersIdle
    /\ ScanIdle
    /\ CellIdle
    /\ GateIdle
    /\ ChunksIdle
    /\ TwiceIdle

\* A grouping that gives every rule a group of its own.
RECURSIVE GroupFrom_PerRule(_, _, _)
GroupFrom_PerRule(rules, i, acc) ==
    IF i > Len(rules)
      THEN acc
      ELSE GroupFrom_PerRule(rules, i + 1,
             Append(acc,
                    [key |-> <<rules[i].search_column, rules[i].update_column>>,
                     rule_group |->
                       <<[name |-> rules[i].name,
                          search_value |-> Normalized(rules[i].search_value),
                          target_value |-> rules[i].target_value]>>]))

\* grouped_rules[key].append(...) for key = (search_col, update_col), a new
\* key being added after the keys already there.
RECURSIVE GroupFrom(_, _, _)
GroupFrom(rules, i, acc) ==
    IF i > Len(rules)
      THEN acc
      ELSE LET key == <<rules[i].search_column, rules[i].update_column>>
               entry == [name |-> rules[i].name,
                         search_value |-> Normalized(rules[i].search_value),
                         target_value |-> rules[i].target_value]
               at == {p \in 1..Len(acc) : acc[p].key = key}
           IN GroupFrom(rules, i + 1,
                IF at = {}
                  THEN Append(acc, [key |-> key, rule_group |-> <<entry>>])
                  ELSE LET p == CHOOSE q \in at : TRUE
                       IN [acc EXCEPT ![p].rule_group = Append(@, entry)])

GroupRules ==
    /\ rules_pc = "group"
    /\ grouped_rules' = GroupFrom(rule_list, 1, <<>>)
    /\ pair_idx' = 0
    /\ rules_pc' = "pairs"
    /\ UNCHANGED <<rule_list, grid, first_row, locked_rows, lookup,
                   update_details, updates_made, all_affected_rows, pass_row,
                   heights_set, search_reads, cell_log>>
    /\ UNCHANGED outsideRules

\* lookup[rule['search_value']] = (rule['target_value'], rule['name']) for
\* the rules of the group in order: a later rule replaces an earlier entry.
LastWith(rule_group, search_value) ==
    CHOOSE i \in 1..Len(rule_group) :
        /\ rule_group[i].search_value = search_value
        /\ \A j \in (i + 1)..Len(rule_group) :
             rule_group[j].search_value # search_value
LookupOf(rule_group) ==
    [search_value \in {rule_group[i].search_value : i \in 1..Len(rule_group)} |->
        LET last == rule_group[LastWith(rule_group, search_value)]
        IN <<last.target_value, last.name>>]

\* The head of the group loop: the lookup is built and update_details[name]
\* is set to 0 for every rule of the group; after the last group the row
\* heights follow.
NextPair ==
    /\ rules_pc = "pairs"
    /\ IF pair_idx < Len(grouped_rules)
         THEN LET rule_group == grouped_rules[pair_idx + 1].rule_group
                  names == {rule_group[i].name : i \in 1..Len(rule_group)}
              IN /\ lookup' = LookupOf(rule_group)
                 /\ update_details' =
                      [name \in DOMAIN update_details \cup names |->
                         IF name \in names THEN 0 ELSE update_details[name]]
                 /\ pass_row' = 0
                 /\ rules_pc' = "rows"
         ELSE /\ rules_pc' = "heights"
              /\ UNCHANGED <<lookup, update_details, pass_row>>
    /\ UNCHANGED <<rule_list, grid, first_row, locked_rows, grouped_rules,
                   pair_idx, updates_made, all_affected_rows, heights_set,
                   search_reads, cell_log>>
    /\ UNCHANGED outsideRules

\* One row of a group's pass that assigns the update cell of every row
\* whose search cell matches, whatever the update cell holds.
RuleRow_AlwaysWrites ==
    /\ rules_pc = "rows"
    /\ IF pass_row < Len(grid)
         THEN LET key == grouped_rules[pair_idx + 1].key
                  search_col_idx == column_letter_to_index(key[1])
                  update_col_idx == column_letter_to_index(key[2])
                  search_cell_value == grid[pass_row + 1][search_col_idx + 1]
                  normalized_search == Normalized(search_cell_value)
                  current_value == grid[pass_row + 1][update_col_idx + 1]
                  current_value_str == IF current_value = None THEN <<>>
                                       ELSE StrOf(current_value)
                  hit == /\ ~Falsy(search_cell_value)
                         /\ normalized_search \in DOMAIN lookup
              IN /\ search_reads' = Append(search_reads, <<key, pass_row>>)
                 /\ IF hit /\ pass_row \notin locked_rows
                      THEN LET target_value == lookup[normalized_search][1]
                               rule_name == lookup[normalized_search][2]
                           IN /\ grid' = [grid EXCEPT
                                            ![pass_row + 1][update_col_idx + 1] =
                                              target_value]
                              /\ update_details' =
                                   [update_details EXCEPT ![rule_name] = @ + 1]
                              /\ updates_made' = updates_made + 1
                              /\ all_affected_rows' =
                                   all_affected_rows \cup {pass_row + 1}
                              /\ cell_log' =
                                   Append(cell_log,
                                          <<pass_row, update_col_idx,
                                            target_value, rule_name>>)
                      ELSE UNCHANGED <<grid, update_details, updates_made,
                                       all_affected_rows, cell_log>>
                 /\ pass_row' = pass_row + 1
                 /\ UNCHANGED <<pair_idx, rules_pc>>
         ELSE /\ pair_idx' = pair_idx + 1
              /\ rules_pc' = "pairs"
              /\ UNCHANGED <<grid, update_details, updates_made,
                             all_affected_rows, cell_log, pass_row,
                             search_reads>>
    /\ UNCHANGED <<rule_list, first_row, locked_rows, grouped_rules, lookup,
                   heights_set>>
    /\ UNCHANGED outsideRules

\* One row of a group's pass. A falsy search cell is passed over; a search
\* cell whose normalized text is in the lookup has its update cell read and,
\* when str(current).strip() differs from target_value.strip(), assigned;
\* an assignment that raises leaves the counters alone.
RuleRow ==
    /\ rules_pc = "rows"
    /\ IF pass_row < Len(grid)
         THEN LET key == grouped_rules[pair_idx + 1].key
                  search_col_idx == column_letter_to_index(key[1])
                  update_col_idx == column_letter_to_index(key[2])
                  search_cell_value == grid[pass_row + 1][search_col_idx + 1]
                  normalized_search == Normalized(search_cell_value)
                  current_value == grid[pass_row + 1][update_col_idx + 1]
                  current_value_str == IF current_value = None THEN <<>>
                                       ELSE StrOf(current_value)
                  hit == /\ ~Falsy(search_cell_value)
                         /\ normalized_search \in DOMAIN lookup
                         /\ Strip(current_value_str)
                              # Strip(lookup[normalized_search][1])
              IN /\ search_reads' = Append(search_reads, <<key, pass_row>>)
                 /\ IF hit /\ pass_row \notin locked_rows
                      THEN LET target_value == lookup[normalized_search][1]
                               rule_name == lookup[normalized_search][2]
                           IN /\ grid' = [grid EXCEPT
                                            ![pass_row + 1][update_col_idx + 1] =
                                              target_value]
                              /\ update_details' =
                                   [update_details EXCEPT ![rule_name] = @ + 1]
                              /\ updates_made' = updates_made + 1
                              /\ all_affected_rows' =
                                   all_affected_rows \cup {pass_row + 1}
                              /\ cell_log' =
                                   Append(cell_log,
                                          <<pass_row, update_col_idx,
                                            target_value, rule_name>>)
                      ELSE UNCHANGED <<grid, update_details, updates_made,
                                       all_affected_rows, cell_log>>
                 /\ pass_row' = pass_row + 1
                 /\ UNCHANGED <<pair_idx, rules_pc>>
         ELSE /\ pair_idx' = pair_idx + 1
              /\ rules_pc' = "pairs"
              /\ UNCHANGED <<grid, update_details, updates_made,
                             all_affected_rows, cell_log, pass_row,
                             search_reads>>
    /\ UNCHANGED <<rule_list, first_row, locked_rows, grouped_rules, lookup,
                   heights_set>>
    /\ UNCHANGED outsideRules
\* for row_num in all_affected_rows:
\*     sheet.range(f"{row_num}:{row_num}").row_height = 16
SetRowHeights ==
    /\ rules_pc = "heights"
    /\ heights_set' = all_affected_rows
    /\ rules_pc' = "done"
    /\ UNCHANGED <<rule_list, grid, first_row, locked_rows, grouped_rules,
                   pair_idx, lookup, update_details, updates_made,
                   all_affected_rows, pass_row, search_reads, cell_log>>
    /\ UNCHANGED outsideRules

NextRules ==
    \/ GroupRules
    \/ NextPair
    \/ RuleRow
    \/ SetRowHeights

SpecRules == InitRules /\ [][NextRules]_vars

\* --------------------- SpecSheets: which sheets of a workbook are processed

\* The character U+FF21 (fullwidth A), which NFKC turns into "A".
FullwidthA == "fullwidth A"
NFKC(str) == [i \in 1..Len(str) |-> IF str[i] = FullwidthA THEN "A" ELSE str[i]]

\* re.sub(r"\s+", " ", normalized): every run of whitespace becomes one space.
RECURSIVE CollapseWhitespace(_)
CollapseWhitespace(str) ==
    IF str = <<>> THEN <<>>
    ELSE IF Head(str) \in Whitespace
      THEN <<" ">> \o CollapseWhitespace(LStrip(str))
      ELSE <<Head(str)>> \o CollapseWhitespace(Tail(str))

\* _normalize_sheet_name for a string
_normalize_sheet_name(name) == Lower(CollapseWhitespace(Strip(NFKC(name))))

\* Sheet names: "Ab", "ab", " Ab ", "A b", "A  B", fullwidth-A "B", "Ac".
SheetNames ==
    {<<"A", "b">>, <<"a", "b">>, <<" ", "A", "b", " ">>, <<"A", " ", "b">>,
     <<"A", " ", " ", "B">>, <<FullwidthA, "B">>, <<"A", "c">>}
\* The configuration of a sheet, a dict with the keys it specifies:
\* {}, {'enabled': True}, {'enabled': False}, {'columns': 'A'}.
NoKeys == [key \in {} |-> TRUE]
SheetConfigs ==
    {NoKeys, [key \in {"enabled"} |-> TRUE], [key \in {"enabled"} |-> FALSE],
     [key \in {"columns"} |-> <<"A">>]}
\* dict.get(key, default)
Get(config, key, default) ==
    IF key \in DOMAIN config THEN config[key] ELSE default
\* A dict has every key once.
Configurations ==
    {entries \in SeqsUpTo(SheetNames \X SheetConfigs, MaxConfigs) :
        \A i, j \in 1..Len(entries) : i # j => entries[i][1] # entries[j][1]}

InitSheets ==
    /\ variant \in Variants
    /\ sheet_name \in SheetNames
    /\ configured \in Configurations
    /\ gate_pc = "gate"
    /\ gate_columns = None
    /\ LoopIdle
    /\ EngineIdle
    /\ ParseIdle
    /\ LettersIdle
    /\ ScanIdle
    /\ CellIdle
    /\ RulesIdle
    /\ ChunksIdle
    /\ TwiceIdle

\* The find/replace variant. Without sheet_configurations every sheet is
\* processed, on all columns. With them, the first entry whose normalized name is the sheet's is taken; a sheet without
\* one, or with a falsy one, is skipped ("not in configuration"), as is a
\* sheet whose entry has a falsy 'enabled'; else the engine is called with
\* the entry's 'columns'.
GateReplace ==
    /\ gate_pc = "gate"
    /\ variant = "replace"
    /\ LET normalized_sheet_name == _normalize_sheet_name(sheet_name)
           hits == {i \in 1..Len(configured) :
                      _normalize_sheet_name(configured[i][1])
                        = normalized_sheet_name}
           sheet_config == configured[Least(hits)][2]
       IN IF configured = <<>>
            THEN /\ gate_pc' = "processed"
                 /\ gate_columns' = None
          ELSE IF hits = {} \/ DOMAIN sheet_config = {}
            THEN /\ gate_pc' = "skipped"
                 /\ gate_columns' = gate_columns
            ELSE IF ~Get(sheet_config, "enabled", TRUE)
              THEN /\ gate_pc' = "skipped"
                   /\ gate_columns' = gate_columns
              ELSE /\ gate_pc' = "processed"
                   /\ gate_columns' = Get(sheet_config, "columns", None)
    /\ UNCHANGED <<variant, sheet_name, configured>>
    /\ UNCHANGED outsideGate

\* The rule variant: if sheet_name not in sheet_rules: continue
GateRules ==
    /\ gate_pc = "gate"
    /\ variant = "rules"
    /\ gate_pc' = IF \E i \in 1..Len(configured) : configured[i][1] = sheet_name
                    THEN "processed"
                    ELSE "skipped"
    /\ UNCHANGED <<variant, sheet_name, configured, gate_columns>>
    /\ UNCHANGED outsideGate

NextSheets ==
    \/ GateReplace
    \/ GateRules

SpecSheets == InitSheets /\ [][NextSheets]_vars

\* ------------------ SpecChunks: process_sheet_in_chunks, chunk by chunk

\* The row counts handed over: none, one, and those around the chunk sizes
\* and the limits at which the chunk size changes.
ChunkRowChoices == {0, 1, 5000, 5001, 10000, 10001, 100000, 100001}
\* The pair lists: [("A","B"),("B","C")], [("A","B")], [("A","AA"),("A","B")]
ChunkPairLists ==
    {<<<<<<"A">>, <<"B">>>>, <<<<"B">>, <<"C">>>>>>,
     <<<<<<"A">>, <<"B">>>>>>,
     <<<<<<"A">>, <<"A", "A">>>>, <<<<"A">>, <<"B">>>>>>}
FindTexts(pairs) == {pairs[i][1] : i \in 1..Len(pairs)}
\* sum(chunk_replacements.values())
RECURSIVE SumValues(_)
SumValues(counts) ==
    IF DOMAIN counts = {}
      THEN 0
      ELSE LET key == CHOOSE k \in DOMAIN counts : TRUE
           IN counts[key]
                + SumValues([k \in DOMAIN counts \ {key} |-> counts[k]])
\* How a call of process_chunk ends: it returns its counts, after no
\* failure or after the except clause of a cell or of a row has passed over
\* the cell or row that failed, or it raises.
ChunkOutcomes == {"returns", "cell_skipped", "row_skipped", "raises"}

InitChunks ==
    /\ chunk_pairs \in ChunkPairLists
    /\ sheet_rows \in ChunkRowChoices
    /\ chunk_size = 0
    /\ chunk_start = 0
    /\ chunks_pc = "setup"
    /\ chunks_processed = 0
    /\ chunks_with_changes = 0
    /\ total_replacements = 0
    /\ replacement_details = <<>>
    /\ chunk_failures = 0
    /\ chunk_log = <<>>
    /\ kept_counts = <<>>
    /\ counted_after_failure = FALSE
    /\ units_skipped = {}
    /\ variant = "replace"
    /\ LoopIdle
    /\ EngineIdle
    /\ ParseIdle
    /\ LettersIdle
    /\ ScanIdle
    /\ CellIdle
    /\ RulesIdle
    /\ GateIdle
    /\ TwiceIdle

\* The counters are set up, replacement_details[find_text] = 0 for every
\* pair, the patterns are compiled and the chunk size is chosen.
ChunksSetup ==
    /\ chunks_pc = "setup"
    /\ replacement_details' = [find_text \in FindTexts(chunk_pairs) |-> 0]
    /\ kept_counts' = [find_text \in FindTexts(chunk_pairs) |-> 0]
    /\ chunk_size' = ChunkSize(sheet_rows)
    /\ chunk_start' = 0
    /\ chunks_pc' = "chunks"
    /\ UNCHANGED <<chunk_pairs, sheet_rows, chunks_processed,
                   chunks_with_changes, total_replacements, chunk_failures,
                   chunk_log, counted_after_failure, units_skipped>>
    /\ UNCHANGED outsideChunks

\* One turn of the chunk loop without the try: a call that raises ends the
\* engine with its exception.
ChunkTurn_NoTry ==
    /\ chunks_pc = "chunks"
    /\ IF chunk_start < sheet_rows
         THEN LET chunk_end == Min(chunk_start + chunk_size, sheet_rows)
              IN \E outcome \in ChunkOutcomes :
                 \E counts \in [FindTexts(chunk_pairs) -> 0..MaxTotal] :
                   /\ total_replacements + SumValues(counts) <= MaxTotal
                   /\ outcome = "raises" =>
                        /\ chunk_failures < MaxFailures
                        /\ SumValues(counts) = 0
                   /\ chunk_log' = Append(chunk_log, <<chunk_start, chunk_end>>)
                   /\ units_skipped' =
                        (units_skipped
                           \cup (IF outcome = "returns" THEN {} ELSE {outcome}))
                   /\ chunks_processed' = chunks_processed + 1
                   /\ IF outcome = "raises"
                        THEN /\ chunk_failures' = chunk_failures + 1
                             /\ chunks_pc' = "raised"
                             /\ UNCHANGED <<total_replacements,
                                            chunks_with_changes,
                                            replacement_details, kept_counts,
                                            counted_after_failure>>
                        ELSE /\ total_replacements' =
                                  total_replacements + SumValues(counts)
                             /\ chunks_with_changes' = chunks_with_changes + 1
                             /\ replacement_details' =
                                  [find_text \in DOMAIN replacement_details |->
                                     replacement_details[find_text]
                                       + counts[find_text]]
                             /\ kept_counts' =
                                  [find_text \in DOMAIN kept_counts |->
                                     kept_counts[find_text] + counts[find_text]]
                             /\ counted_after_failure' =
                                  (\/ counted_after_failure
                                   \/ /\ chunk_failures > 0
                                      /\ SumValues(counts) > 0)
                             /\ chunks_pc' = "chunks"
                             /\ chunk_failures' = chunk_failures
                   /\ chunk_start' = chunk_start + chunk_size
         ELSE /\ chunks_pc' = "heights"
              /\ UNCHANGED <<chunk_start, chunks_processed,
                             chunks_with_changes, total_replacements,
                             replacement_details, chunk_failures, chunk_log,
                             kept_counts, counted_after_failure,
                             units_skipped>>
    /\ UNCHANGED <<chunk_pairs, sheet_rows, chunk_size>>
    /\ UNCHANGED outsideChunks

\* for start_row in range(0, rows, chunk_size): end_row = min(start_row +
\* chunk_size, rows); process_chunk is called under try. When it returns,
\* its dict, which has a key for every pair and so is truthy, is added to
\* total_replacements and replacement_details; when it raises, the except
\* clause warns and continues with the next chunk.
ChunkTurn ==
    /\ chunks_pc = "chunks"
    /\ IF chunk_start < sheet_rows
         THEN LET chunk_end == Min(chunk_start + chunk_size, sheet_rows)
              IN \E outcome \in ChunkOutcomes :
                 \E counts \in [FindTexts(chunk_pairs) -> 0..MaxTotal] :
                   /\ total_replacements + SumValues(counts) <= MaxTotal
                   /\ outcome = "raises" =>
                        /\ chunk_failures < MaxFailures
                        /\ SumValues(counts) = 0
                   /\ chunk_log' = Append(chunk_log, <<chunk_start, chunk_end>>)
                   /\ units_skipped' =
                        (units_skipped
                           \cup (IF outcome = "returns" THEN {} ELSE {outcome}))
                   /\ chunks_processed' = chunks_processed + 1
                   /\ IF outcome = "raises"
                        THEN /\ chunk_failures' = chunk_failures + 1
                             /\ UNCHANGED <<total_replacements,
                                            chunks_with_changes,
                                            replacement_details, kept_counts,
                                            counted_after_failure>>
                        ELSE /\ total_replacements' =
                                  total_replacements + SumValues(counts)
                             /\ chunks_with_changes' = chunks_with_changes + 1
                             /\ replacement_details' =
                                  [find_text \in DOMAIN replacement_details |->
                                     replacement_details[find_text]
                                       + counts[find_text]]
                             /\ kept_counts' =
                                  [find_text \in DOMAIN kept_counts |->
                                     kept_counts[find_text] + counts[find_text]]
                             /\ counted_after_failure' =
                                  (\/ counted_after_failure
                                   \/ /\ chunk_failures > 0
                                      /\ SumValues(counts) > 0)
                             /\ chunk_failures' = chunk_failures
                   /\ chunk_start' = chunk_start + chunk_size
                   /\ chunks_pc' = "chunks"
         ELSE /\ chunks_pc' = "heights"
              /\ UNCHANGED <<chunk_start, chunks_processed,
                             chunks_with_changes, total_replacements,
                             replacement_details, chunk_failures, chunk_log,
                             kept_counts, counted_after_failure,
                             units_skipped>>
    /\ UNCHANGED <<chunk_pairs, sheet_rows, chunk_size>>
    /\ UNCHANGED outsideChunks

\* if chunks_with_changes > 0 the row heights are set, every exception of
\* that being swallowed; return total_replacements, replacement_details.
ChunksReturn ==
    /\ chunks_pc = "heights"
    /\ chunks_pc' = "returned"
    /\ UNCHANGED <<chunk_pairs, sheet_rows, chunk_size, chunk_start,
                   chunks_processed, chunks_with_changes, total_replacements,
                   replacement_details, chunk_failures, chunk_log,
                   kept_counts, counted_after_failure, units_skipped>>
    /\ UNCHANGED outsideChunks

NextChunks ==
    \/ ChunksSetup
    \/ ChunkTurn
    \/ ChunksReturn

SpecChunks == InitChunks /\ [][NextChunks]_vars

\* ------------- SpecTwice: process_sheet_with_rules called twice on a sheet

\* Rules on the column pairs (A,B), (A,C), (B,B), (B,C), searching for "x"
\* or "t2"; the rule at position i has the target "T<i>" and its own name.
TwiceShapes ==
    {[search_column |-> sc, search_value |-> sv, update_column |-> uc] :
        sc \in {<<"A">>, <<"B">>}, sv \in {<<"x">>, <<"t", "2">>},
        uc \in {<<"B">>, <<"C">>}}
TwiceRuleLists ==
    {[i \in 1..Len(shapes) |->
        [name |-> <<"rule", i>>,
         search_column |-> shapes[i].search_column,
         search_value |-> shapes[i].search_value,
         update_column |-> shapes[i].update_column,
         target_value |-> TargetOf(i)]] :
        shapes \in SeqsUpTo(TwiceShapes, MaxRules) \ {<<>>}}
\* The rows of the sheet, all cells text or empty.
TwiceRows ==
    {<<<<"x">>, None, None>>,
     <<<<"x">>, <<"x">>, None>>,
     <<<<"X">>, <<"T", "2">>, <<"T", "1">>>>}

InitTwice ==
    /\ rule_list \in TwiceRuleLists
    /\ grid \in [1..2 -> TwiceRows]
    /\ first_row = 1
    /\ locked_rows = {}
    /\ rules_pc = "group"
    /\ grouped_rules = <<>>
    /\ pair_idx = 0
    /\ lookup = <<>>
    /\ update_details = <<>>
    /\ updates_made = 0
    /\ all_affected_rows = {}
    /\ pass_row = 0
    /\ heights_set = {}
    /\ search_reads = <<>>
    /\ cell_log = <<>>
    /\ run_no = 1
    /\ grid_after_first = <<>>
    /\ first_run_updates = 0
    /\ FileIdle
    /\ ParseIdle
    /\ LettersIdle
    /\ ScanIdle
    /\ CellIdle
    /\ GateIdle
    /\ ChunksIdle

\* The engine has returned and is called once more with the same rules on
\* the sheet as it stands; the call starts from its own fresh locals.
RunAgain ==
    /\ rules_pc = "done"
    /\ run_no = 1
    /\ run_no' = 2
    /\ grid_after_first' = grid
    /\ first_run_updates' = updates_made
    /\ rules_pc' = "group"
    /\ grouped_rules' = <<>>
    /\ pair_idx' = 0
    /\ lookup' = <<>>
    /\ update_details' = <<>>
    /\ updates_made' = 0
    /\ all_affected_rows' = {}
    /\ pass_row' = 0
    /\ search_reads' = <<>>
    /\ cell_log' = <<>>
    /\ UNCHANGED <<rule_list, grid, first_row, locked_rows, heights_set>>
    /\ UNCHANGED outsideTwice

NextTwice ==
    \/ GroupRules
    \/ NextPair
    \/ RuleRow
    \/ SetRowHeights
    \/ RunAgain

SpecTwice == InitTwice /\ [][NextTwice]_vars

\* ----------------------------------------------------- claims on SpecFile

\* C1: when process_excel_with_xlwings has returned, every handle that was
\* acquired has had its release called: app.quit() if the application was
\* started, wb.close() if the workbook was opened, on every exit path.
C1_EveryHandleReleased ==
    pc = "tally" =>
        /\ (app = "started" => app_quit_called)
        /\ (wb = "open" => wb_close_called)

\* C2: when the workbook of a file has been closed, wb.save() was invoked
\* if and only if at least one cell of it was overwritten.
C2_SavedIffCellWritten ==
    pc = "tally" => (save_called <=> cells_written > 0)

\* The files 1..n in the order of excel_files.
FirstFiles(n) == [k \in 1..n |-> k]

TallyInvariant ==
    /\ attempted = FirstFiles(Len(attempted))
    /\ Len(attempted) <= total_files
    /\ successful_files + failed_files = file_idx
    /\ pc \in {"main_loop", "summary"} => Len(attempted) = file_idx
    /\ pc \notin {"main_loop", "summary"} => Len(attempted) = file_idx + 1
    /\ pc = "summary" => Len(attempted) = total_files

\* C3: whatever fails in a file, every listed file is attempted exactly once
\* and in order, successful_files + failed_files counts the files completed
\* so far, and the summary is reached.
C3_LoopSurvivesFileFailures ==
    /\ []TallyInvariant
    /\ <>(pc = "summary")

\* A run in which the first file failed and the loop went on to the end.
C3_Witness ==
    /\ pc = "summary"
    /\ total_files >= 2
    /\ failed_files >= 1
    /\ attempted = FirstFiles(total_files)

\* ---------------------------------------------------- claims on SpecParse

IsLetter(c) == c \in SeqRange(UpperLetters) \cup SeqRange(LowerLetters)
LettersOnly(token) ==
    token # <<>> /\ \A i \in 1..Len(token) : IsLetter(token[i])

\* The place of a letter sequence in spreadsheet column order, from 0: the
\* sequences shorter than it come first, then those of its length that
\* precede it alphabetically (case ignored).
RECURSIVE Pow26(_)
Pow26(n) == IF n = 0 THEN 1 ELSE 26 * Pow26(n - 1)
LetterRank(c) == IndexOf(UpperLetters, UpperChar(c)) - 1
RECURSIVE ShorterCount(_)
ShorterCount(n) == IF n <= 1 THEN 0 ELSE Pow26(n - 1) + ShorterCount(n - 1)
RECURSIVE AlphabeticPlace(_)
AlphabeticPlace(token) ==
    IF token = <<>>
      THEN 0
      ELSE LetterRank(Head(token)) * Pow26(Len(token) - 1)
             + AlphabeticPlace(Tail(token))
ColumnOrdinal(token) == ShorterCount(Len(token)) + AlphabeticPlace(token)

WellFormedPart(part) ==
    /\ LettersOnly(part.a)
    /\ part.kind = "range" => LettersOnly(part.b)
WellFormedParts(parts) ==
    parts # <<>> /\ \A i \in 1..Len(parts) : WellFormedPart(parts[i])
ReversedPart(part) ==
    part.kind = "range" /\ ColumnOrdinal(part.a) > ColumnOrdinal(part.b)
PartDenotation(part) ==
    IF part.kind = "single"
      THEN {ColumnOrdinal(part.a)}
      ELSE ColumnOrdinal(part.a)..ColumnOrdinal(part.b)
Denotation(parts) == UNION {PartDenotation(parts[i]) : i \in 1..Len(parts)}
StrictlyAscending(q) == \A i \in 1..(Len(q) - 1) : q[i] < q[i + 1]

\* C6: for a well-formed specification parse_column_range returns a strictly
\* ascending list holding exactly the columns its parts denote, whatever the
\* order of the parts; "A,C:E,G" gives [0,2,3,4,6], "B,D:F,H" [1,3,4,5,7].
C6_WellFormedSpecParses ==
    (parse_pc = "parsed" /\ WellFormedParts(spec_parts)) =>
        /\ parse_result.kind = "list"
        /\ StrictlyAscending(parse_result.value)
        /\ SeqRange(parse_result.value) = Denotation(spec_parts)
        /\ column_spec = Render(ExampleACEG)
             => parse_result.value = <<0, 2, 3, 4, 6>>
        /\ column_spec = Render(ExampleBDFH)
             => parse_result.value = <<1, 3, 4, 5, 7>>

\* "A,C:E,G" has been parsed.
C6_Witness ==
    /\ parse_pc = "parsed"
    /\ column_spec = <<"A", ",", "C", ":", "E", ",", "G">>
    /\ parse_result.kind = "list"
    /\ Len(parse_result.value) = 5

\* C7: a range whose start lies after its end adds no index and raises
\* nothing; the result holds exactly the columns of the other parts.
C7_ReversedRangeIsEmpty ==
    (/\ parse_pc = "parsed"
     /\ WellFormedParts(spec_parts)
     /\ \E i \in 1..Len(spec_parts) : ReversedPart(spec_parts[i])) =>
        /\ parse_result.kind = "list"
        /\ SeqRange(parse_result.value) =
             UNION {PartDenotation(spec_parts[i]) :
                      i \in {j \in 1..Len(spec_parts) :
                                ~ReversedPart(spec_parts[j])}}

\* A reversed range beside a part that contributes its column.
C7_Witness ==
    /\ parse_pc = "parsed"
    /\ WellFormedParts(spec_parts)
    /\ Len(spec_parts) = 2
    /\ ReversedPart(spec_parts[1])
    /\ ~ReversedPart(spec_parts[2])
    /\ Len(parse_result.value) = 1

\* A specification with a non-letter inside a part, an empty part among
\* several, or an empty range endpoint.
MalformedParts(parts) ==
    \E i \in 1..Len(parts) :
        LET part == parts[i]
            used == IF part.kind = "range" THEN {part.a, part.b} ELSE {part.a}
        IN \/ \E token \in used : \E k \in 1..Len(token) : ~IsLetter(token[k])
           \/ part.kind = "range" /\ <<>> \in used
           \/ part.kind = "single" /\ part.a = <<>> /\ Len(parts) >= 2

\* C8: malformed input is rejected with MalformedColumnSpec instead of an
\* index list, and no returned index is negative.
C8_MalformedSpecRejected ==
    parse_pc = "parsed" =>
        /\ MalformedParts(spec_parts)
             => parse_result = Raised("MalformedColumnSpec")
        /\ parse_result.kind = "list"
             => \A i \in 1..Len(parse_result.value) : parse_result.value[i] >= 0

\* C9: on every text of letters, commas, colons and whitespace the parser
\* ends with an index list, the no-restriction marker or the documented
\* malformed-spec error, never another exception.
C9_TotalOnSpecAlphabet ==
    (parse_pc = "parsed" /\ spec_parts = <<>>) =>
        \/ parse_result.kind \in {"list", "none"}
        \/ parse_result = Raised("MalformedColumnSpec")

\* --------------------------------------------------- claims on SpecLetters

\* L comes before M in spreadsheet column order: shorter first, then
\* alphabetically.
Precedes(L, M) ==
    \/ Len(L) < Len(M)
    \/ /\ Len(L) = Len(M)
       /\ \E k \in 1..Len(L) :
            /\ \A j \in 1..(k - 1) : L[j] = M[j]
            /\ LetterRank(L[k]) < LetterRank(M[k])

ProbeLetters ==
    {<<"A">>, <<"B">>, <<"Y">>, <<"Z">>, <<"A", "A">>, <<"A", "Z">>,
     <<"B", "A">>, <<"Z", "Y">>, <<"Z", "Z">>, <<"A", "A", "A">>}

\* C10: converting a column from letters to its index and back gives the
\* letters again; the index grows strictly with spreadsheet column order
\* and is the column's place in that order, A at 0, Z at 25, AA at 26.
C10_LettersRoundTrip ==
    /\ letter_pc = "back" => letter_back = letter_seq
    /\ letter_pc \in {"index", "back"} =>
         /\ letter_index = ColumnOrdinal(letter_seq)
         /\ \A other \in ProbeLetters :
              /\ Precedes(other, letter_seq)
                   => column_letter_to_index(other) < letter_index
              /\ Precedes(letter_seq, other)
                   => letter_index < column_letter_to_index(other)
         /\ letter_seq = <<"A">> => letter_index = 0
         /\ letter_seq = <<"Z">> => letter_index = 25
         /\ letter_seq = <<"A", "A">> => letter_index = 26

\* AA has gone to 26 and come back.
C10_Witness ==
    /\ letter_pc = "back"
    /\ letter_seq = <<"A", "A">>
    /\ letter_index = 26
    /\ letter_back = <<"A", "A">>

\* ------------------------------------------------------ claims on SpecScan

\* C4: with a used range of usedRows rows, no cell is read or assigned in a
\* row at or after min(usedRows, cap), cap being 300 for find/replace and
\* max_rows_to_process for the rules; a completed scan has visited exactly
\* the rows before it, once per pass.
C4_RowsBeyondCapUntouched ==
    (scan_pc # "idle" /\ used_range # None) =>
        LET cap == IF variant = "replace" THEN 300 ELSE max_rows_to_process
            limit == IF used_range[1] <= cap THEN used_range[1] ELSE cap
            passes == IF variant = "replace" THEN 1 ELSE Len(groups)
        IN /\ max_row_read < limit
           /\ max_row_written < limit
           /\ scan_pc = "done" => rows_visited = passes * limit

\* A sheet of more than 300 used rows whose only matching cell is in its
\* last row: rows 0..299 were read and nothing was assigned.
C4_Witness ==
    /\ scan_pc = "done"
    /\ used_range # None
    /\ used_range[1] > 300
    /\ matching = "last"
    /\ max_row_read = 299
    /\ max_row_written = -1

\* C5: in find/replace the columns checked in a row are the parsed indices
\* below the available columns whenever a non-empty column setting is
\* given (none when it parses to the empty list), and the first
\* min(availableCols, 108) only when the setting is empty or absent.
C5_RestrictionRespected ==
    (variant = "replace" /\ rows_visited > 0) =>
        columns_checked =
            IF target_columns # None /\ target_columns # <<>>
              THEN {c \in SeqRange(parse_column_range(target_columns).value) :
                      c < used_range[2]}
              ELSE {c \in 0..107 : c < used_range[2]}

\* ------------------------------------------------------ claims on SpecCell

SameIgnoringCase(a, b) == Upper(a) = Upper(b)

\* The pieces of text between the occurrences of find_text, taken from the
\* left; replacing every occurrence is joining the pieces with replace_text.
FirstOccurrence(text, find_text) ==
    LET at == {k \in 1..(Len(text) - Len(find_text) + 1) :
                 SameIgnoringCase(SubSeq(text, k, k + Len(find_text) - 1),
                                  find_text)}
    IN IF at = {} THEN 0 ELSE CHOOSE k \in at : \A m \in at : k <= m
RECURSIVE PiecesOf(_, _)
PiecesOf(text, find_text) ==
    LET k == FirstOccurrence(text, find_text)
    IN IF k = 0
         THEN <<text>>
         ELSE <<SubSeq(text, 1, k - 1)>>
                \o PiecesOf(SubSeq(text, k + Len(find_text), Len(text)),
                            find_text)
RECURSIVE JoinWith(_, _)
JoinWith(pieces, sep) ==
    IF Len(pieces) = 1
      THEN pieces[1]
      ELSE pieces[1] \o sep \o JoinWith(Tail(pieces), sep)
Occurrences(text, find_text) == Len(PiecesOf(text, find_text)) - 1
ReplaceAll(text, find_text, replace_text) ==
    JoinWith(PiecesOf(text, find_text), replace_text)

\* The value of a cell that held text after the first n pairs, and what
\* pair i replaces in the value the pairs before it produced.
RECURSIVE ValueAfter(_, _, _)
ValueAfter(pairs, n, text) ==
    IF n = 0
      THEN text
      ELSE ReplaceAll(ValueAfter(pairs, n - 1, text), pairs[n][1], pairs[n][2])
SubsOf(pairs, i, text) ==
    Occurrences(ValueAfter(pairs, i - 1, text), pairs[i][1])

RECURSIVE SumSeq(_)
SumSeq(q) == IF q = <<>> THEN 0 ELSE Head(q) + SumSeq(Tail(q))
\* What the pairs at the positions in which have substituted, in all cells.
SubsAt(which) ==
    SumSeq([c \in 1..2 |->
              SumSeq([i \in 1..Len(subs_log[c]) |->
                        IF i \in which THEN subs_log[c][i] ELSE 0])])

ExampleABC == <<<<<<"A">>, <<"B">>>>, <<<<"B">>, <<"C">>>>>>

C12_CountsPerPair ==
    cell_pc = "done" =>
        \A i \in 1..Len(replacement_pairs) :
            chunk_replacements[replacement_pairs[i][1]] = SubsAt({i})

\* C13: a cell is assigned at most once in a scan, and the value assigned
\* is the one all pairs together made of the cell's original value.
C13_OneWritePerCell ==
    /\ \A c \in DOMAIN writes_log : Len(writes_log[c]) <= 1
    /\ (cell_pc = "next_cell" /\ cell_pos >= 1) =>
         (writes_log[cell_pos] # <<>> =>
            writes_log[cell_pos][1] =
              ValueAfter(replacement_pairs, Len(replacement_pairs),
                         original_value))

\* A cell that two pairs matched, four substitutions in all, assigned once.
C13_Witness ==
    /\ cell_pc = "next_cell"
    /\ cell_pos >= 1
    /\ Len(writes_log[cell_pos]) = 1
    /\ Len(subs_log[cell_pos]) = 2
    /\ subs_log[cell_pos][1] >= 1
    /\ subs_log[cell_pos][2] >= 2

RECURSIVE SumOfCounts(_)
SumOfCounts(counts) ==
    IF DOMAIN counts = {}
      THEN 0
      ELSE LET key == CHOOSE k \in DOMAIN counts : TRUE
           IN counts[key]
                + SumOfCounts([k \in DOMAIN counts \ {key} |-> counts[k]])

\* C19: when assignments to cells fail, the scan still runs to its end and
\* the count it reports is the number of changes that were written: the
\* substitutions made in the cells whose assignment succeeded.
C19_CountIsWhatWasWritten ==
    cell_pc = "done" =>
        SumOfCounts(chunk_replacements) =
          SumSeq([c \in 1..2 |->
                    IF writes_log[c] # <<>> THEN SumSeq(subs_log[c]) ELSE 0])

\* An empty cell, a value that is no text, or a text of whitespace only.
WithoutContent(value) ==
    \/ value \in NonTextValues
    \/ \A i \in 1..Len(value) : value[i] \in Whitespace

\* C21: a cell whose value is empty, no text (a number, a date, a boolean)
\* or whitespace only is never assigned and keeps its value, and no count
\* changes while it is the cell at hand, whatever the pairs are.
C21_IneligibleCellsUntouched ==
    [][\A c \in 1..2 :
         WithoutContent(sheet_cells[c]) =>
            /\ sheet_cells'[c] = sheet_cells[c]
            /\ writes_log'[c] = writes_log[c]
            /\ cell_pos + 1 = c => chunk_replacements' = chunk_replacements]_vars

\* The scan is over: a cell of one space and a cell holding a number were
\* passed over under a pair that replaces spaces.
C21_Witness ==
    /\ cell_pc = "done"
    /\ replacement_pairs = BlankPair
    /\ sheet_cells = <<<<" ">>, NumberFive>>
    /\ writes_log = <<<<>>, <<>>>>
    /\ chunk_replacements[<<" ">>] = 0

\* C25: a cell is assigned, and its substitutions are counted (which is
\* what marks the sheet as modified and has the workbook saved), only when
\* the value the pairs made of it differs from its original value; a cell
\* that comes out as it was is not assigned and adds nothing to the counts.
C25_WritesOnlyRealChanges ==
    /\ (cell_pc = "update" /\ cell_value = original_value) =>
         (~modified /\ SumSeq(subs_log[cell_pos + 1]) = 0)
    /\ (cell_pc = "next_cell" /\ cell_pos >= 1) =>
         (writes_log[cell_pos] # <<>> =>
            writes_log[cell_pos][1] # original_value)

\* ----------------------------------------------------- claims on SpecRules

\* The text a cell shows, trimmed and lowercased.
TextOf(value) ==
    IF value = None THEN <<>>
    ELSE IF value = NumberZero THEN <<"0", ".", "0">>
    ELSE value
NormalizedText(value) == Lower(Strip(TextOf(value)))

\* The positions in rule_list of the rules of a column pair whose search
\* value, normalized, is text; the last of them is the one that applies.
RulesFor(key, text) ==
    {i \in 1..Len(rule_list) :
        /\ <<rule_list[i].search_column, rule_list[i].update_column>> = key
        /\ NormalizedText(rule_list[i].search_value) = text}
LastOf(S) == CHOOSE i \in S : \A j \in S : j <= i
ColumnOf(letter) == ColumnOrdinal(letter) + 1

\* C14: in a row of a group's pass the update cell is overwritten with the
\* rule's target, the rule's counter raised by one and the row added to the
\* affected rows, exactly when the search cell's normalized text is a key of
\* the group's lookup and the update cell's normalized text differs from
\* the target; otherwise the cell and every counter stay as they are.
C14_UpdateExactlyWhenDue ==
    [][(rules_pc = "rows" /\ pass_row < Len(grid) /\ pass_row \notin locked_rows) =>
         LET key == grouped_rules[pair_idx + 1].key
             row == grid[pass_row + 1]
             text == NormalizedText(row[ColumnOf(key[1])])
             matching_rules == RulesFor(key, text)
             rule == rule_list[LastOf(matching_rules)]
             due == /\ matching_rules # {}
                    /\ NormalizedText(row[ColumnOf(key[2])]) # rule.target_value
         IN IF due
              THEN /\ grid'[pass_row + 1][ColumnOf(key[2])] = rule.target_value
                   /\ update_details'[rule.name] = update_details[rule.name] + 1
                   /\ all_affected_rows' = all_affected_rows \cup {pass_row + 1}
              ELSE /\ grid' = grid
                   /\ update_details' = update_details
                   /\ all_affected_rows' = all_affected_rows
      ]_vars

\* The earlier of two rules of one column pair with the same normalized
\* search value.
Shadowed(i) ==
    \E j \in (i + 1)..Len(rule_list) :
        /\ rule_list[j].search_column = rule_list[i].search_column
        /\ rule_list[j].update_column = rule_list[i].update_column
        /\ NormalizedText(rule_list[j].search_value)
             = NormalizedText(rule_list[i].search_value)

\* C15: of two rules of the same column pair with the same normalized
\* search value the later one wins: no cell receives the earlier rule's
\* target, the earlier rule's counter stays 0, every update is counted for
\* the rule whose target was written.
C15_LaterRuleWins ==
    \A i \in 1..Len(rule_list) :
        Shadowed(i) =>
            /\ \A k \in 1..Len(cell_log) :
                 cell_log[k][3] # rule_list[i].target_value
            /\ rule_list[i].name \in DOMAIN update_details
                 => update_details[rule_list[i].name] = 0

\* The cells of column pair key read so far and the rows of the sheet.
ReadsOf(key, row) ==
    Cardinality({k \in 1..Len(search_reads) : search_reads[k] = <<key, row>>})
PairsOf(rules) ==
    {<<rules[i].search_column, rules[i].update_column>> : i \in 1..Len(rules)}
ExampleSharedPair ==
    /\ Len(rule_list) = 2
    /\ rule_list[1].search_value = <<" ", "X">>
    /\ rule_list[2].search_value = <<"y">>
    /\ rule_list[1].update_column = <<"B">>
    /\ rule_list[2].update_column = <<"B">>

\* C16: the engine makes one pass over the rows per distinct column pair,
\* so no search cell is read twice for the same pair, however many rules
\* share it; with two rules on (A, B) searching "x" and "y", a row holding
\* "x" in A gets the first rule's target and never the second's.
C16_OnePassPerPair ==
    /\ \A key \in PairsOf(rule_list), row \in 0..(Len(grid) - 1) :
         /\ ReadsOf(key, row) <= 1
         /\ rules_pc \in {"heights", "done"} => ReadsOf(key, row) = 1
    /\ rules_pc \notin {"idle", "group"} =>
         /\ Len(grouped_rules) = Cardinality(PairsOf(rule_list))
         /\ {grouped_rules[g].key : g \in 1..Len(grouped_rules)}
              = PairsOf(rule_list)
    /\ ExampleSharedPair =>
         \A k \in 1..Len(cell_log) :
            LET row == cell_log[k][1]
            IN NormalizedText(grid[row + 1][1]) = <<"x">>
                 => cell_log[k][3] = rule_list[1].target_value

\* Two rules sharing (A, B): one group, one pass, the row holding "x" in A
\* has the first rule's target in B.
C16_Witness ==
    /\ rules_pc = "done"
    /\ ExampleSharedPair
    /\ Len(grouped_rules) = 1
    /\ Len(search_reads) = Len(grid)
    /\ grid[1][1] = <<"x">>
    /\ grid[1][2] = rule_list[1].target_value

\* C20: when the engine has finished the sheet, the sheet rows whose height
\* was set to 16 are exactly the sheet rows holding a cell it assigned,
\* wherever the used range starts.
C20_HeightsOnModifiedRows ==
    rules_pc = "done" =>
        heights_set =
          {first_row + cell_log[k][1] : k \in 1..Len(cell_log)}

\* C23: the total that process_sheet_with_rules returns is the sum of the
\* per-rule counts it returns, also when rules of different column pairs
\* have the same name.
C23_TotalIsSumOfCounts ==
    rules_pc = "done" => updates_made = SumValues(update_details)

\* ---------------------------------------------------- claims on SpecSheets

\* The letters and the fullwidth letter, folded to one representative.
FoldChar(c) ==
    CASE c \in {"A", "a", FullwidthA} -> "a"
      [] c \in {"B", "b"} -> "b"
      [] c \in {"C", "c"} -> "c"
      [] OTHER -> c
\* The words of a name: its maximal runs of non-whitespace characters, folded.
RECURSIVE WordsOf(_, _, _)
WordsOf(name, k, word) ==
    IF k > Len(name)
      THEN IF word = <<>> THEN <<>> ELSE <<word>>
      ELSE IF name[k] \in Whitespace
        THEN (IF word = <<>> THEN <<>> ELSE <<word>>) \o WordsOf(name, k + 1, <<>>)
        ELSE WordsOf(name, k + 1, Append(word, FoldChar(name[k])))
\* Two names are the same sheet when they have the same words.
SameSheet(a, b) == WordsOf(a, 1, <<>>) = WordsOf(b, 1, <<>>)
EntriesFor(name) ==
    {i \in 1..Len(configured) : SameSheet(configured[i][1], name)}
MarkedDisabled(config) ==
    "enabled" \in DOMAIN config /\ config["enabled"] = FALSE

\* C17: in the find/replace variant with a sheet configuration supplied, a
\* sheet is scanned if and only if some entry whose normalized name is the
\* sheet's normalized name is not marked enabled = false; an entry with
\* neither 'columns' nor 'enabled' counts as present and enabled, and the
\* sheet is then scanned on all columns.
C17_SheetScannedIffConfigured ==
    (variant = "replace" /\ gate_pc \in {"processed", "skipped"}
       /\ configured # <<>>) =>
        /\ gate_pc = "processed" <=>
             \E i \in EntriesFor(sheet_name) : ~MarkedDisabled(configured[i][2])
        /\ (\E i \in EntriesFor(sheet_name) : configured[i][2] = NoKeys) =>
             gate_pc = "processed"

\* C18: in the rule variant too, a sheet is processed when its name and a
\* rule's sheet_name are the same after normalisation, so also when they
\* differ only in letter case or in surrounding or repeated whitespace.
C18_RuleVariantNormalizesNames ==
    (variant = "rules" /\ gate_pc \in {"processed", "skipped"}) =>
        (gate_pc = "processed" <=> EntriesFor(sheet_name) # {})

\* ---------------------------------------------------- claims on SpecChunks

\* The chunk size the row count calls for.
SizeFor(n) ==
    CASE n > 100000 -> 500
      [] n > 10000 /\ n <= 100000 -> 1000
      [] OTHER -> 5000
\* The chunks logged so far lie end to end from row 0, each of the size
\* the row count calls for, the last one cut at the row count.
EndToEnd ==
    \A k \in 1..Len(chunk_log) :
       /\ chunk_log[k][1] = (k - 1) * SizeFor(sheet_rows)
       /\ chunk_log[k][1] < chunk_log[k][2]
       /\ chunk_log[k][2] = IF k * SizeFor(sheet_rows) < sheet_rows
                              THEN k * SizeFor(sheet_rows)
                              ELSE sheet_rows
LastRowCovered ==
    IF sheet_rows = 0
      THEN chunk_log = <<>>
      ELSE chunk_log # <<>> /\ chunk_log[Len(chunk_log)][2] = sheet_rows

\* C22: the chunks handed to process_chunk lie end to end over the rows
\* 0..rows-1, so that every row is in exactly one of them, with chunk size
\* 500 above 100,000 rows, 1,000 above 10,000 rows, else 5,000; a call that
\* fails, or a row or a cell passed over within a call, stops nothing: when
\* the engine is through the range is covered, the counts of the calls that
\* returned are all there, and no exception has left the engine.
C22_ChunksCoverAndFailuresSkip ==
    /\ chunks_pc # "raised"
    /\ chunks_pc \in {"chunks", "heights", "returned"} =>
         /\ EndToEnd
         /\ chunks_processed = Len(chunk_log)
         /\ replacement_details = kept_counts
    /\ chunks_pc \in {"heights", "returned"} => LastRowCovered

\* 100,001 rows went through in 201 chunks of 500; one call raised, a row
\* and a cell were passed over, and a later call's count was kept.
C22_Witness ==
    /\ chunks_pc = "returned"
    /\ sheet_rows = 100001
    /\ Len(chunk_log) = 201
    /\ chunk_log[201] = <<100000, 100001>>
    /\ chunk_failures >= 1
    /\ units_skipped = {"cell_skipped", "row_skipped", "raises"}
    /\ counted_after_failure
    /\ total_replacements >= 1

\* ----------------------------------------------------- claims on SpecTwice

\* C24 as stated: a second call with the same rules on the sheet the first
\* call produced makes no update and leaves every cell as it is, for any
\* rule list.
C24_SecondRunChangesNothing ==
    run_no = 2 => (updates_made = 0 /\ grid = grid_after_first)

\* No column is updated by the rules of two column pairs, and no column
\* that rules update is a column that rules search.
ColumnsApart(rules) ==
    \A i, j \in 1..Len(rules) :
       /\ rules[i].update_column = rules[j].update_column =>
            rules[i].search_column = rules[j].search_column
       /\ rules[i].update_column # rules[j].search_column

\* C24, amended: a second call with the same rules on the sheet the first
\* call produced makes no update and leaves every cell as it is, when no
\* two column pairs of the rules have the same update column and no rule's
\* update column is a rule's search column.
C24_SecondRunChangesNothingColumnsApart ==
    (run_no = 2 /\ ColumnsApart(rule_list)) =>
        (updates_made = 0 /\ grid = grid_after_first)

\* Two rules on (A,B) and (A,C): the first call updated cells, the second
\* one has been through both passes.
C24_Witness ==
    /\ run_no = 2
    /\ rules_pc = "done"
    /\ ColumnsApart(rule_list)
    /\ Len(grouped_rules) = 2
    /\ first_run_updates >= 2
    /\ Len(search_reads) = 4
    /\ updates_made = 0

====
